---- MODULE Spec2Model ----
(***************************************************************************)
(* python-osc: the dispatcher (pythonosc/dispatcher.py), the packet        *)
(* decoder (pythonosc/osc_packet.py), the message codec                    *)
(* (pythonosc/osc_message.py, osc_message_builder.py, parsing/osc_types.py)*)
(* the SLIP codec (pythonosc/slip.py), the connection handlers of the      *)
(* servers (pythonosc/osc_server.py, osc_tcp_server.py), the threads of    *)
(* the threading server and the tasks of the asyncio server.               *)
(*                                                                         *)
(* Representation.  A Python str is a sequence of one-character strings,   *)
(* a bytes object a sequence of numbers 0..255.  A dict is a sequence of   *)
(* [addr, handlers] entries in key insertion order (the order a Python     *)
(* dict iterates in).  An object with identity (a Handler) carries an id.  *)
(***************************************************************************)
EXTENDS Integers, Sequences, FiniteSets, TLC

(***************************************************************************)
(* Bounds of the model.                                                    *)
(***************************************************************************)
\* Calls of map, unmap and set_default_handler in one run.
MaxOps == 3
\* Elements (messages and bundles) inside the bundle of a packet.
MaxNodes == 3
\* Seconds a sleep may overshoot and seconds a callback may run.
MaxLate == 1
MaxRun == 1
\* The latest time tag of a bundle.
MaxTime == 4
\* Values added to a message.
MaxArgs == 2

(***************************************************************************)
(* Python's re module, for the patterns handlers_for_address builds.  A    *)
(* pattern is a sequence of tokens [cls, q]: a character class and a       *)
(* quantifier: "one" is exactly one character of the class, "opt" is at  *)
(* most one, "star" is any number.  Whether a match exists does not        *)
(* depend on a quantifier being greedy or lazy, so a lazy star is the      *)
(* token "star".                                                           *)
(***************************************************************************)
Char == {"/", "a", "b", "*", "?", "+"}

\* \w of the re module, within Char.
WordChars == {"a", "b"}

Lit(c) == [cls |-> {c}, q |-> "one"]

RECURSIVE MatchFrom(_, _, _, _, _)
\* re.match: tokens toks[ti..] match s from position si; anchored stands
\* for a trailing "$" (the strings of the model hold no newline).
MatchFrom(toks, ti, s, si, anchored) ==
    IF ti > Len(toks)
    THEN (~anchored) \/ si = Len(s) + 1
    ELSE LET t == toks[ti]
             here == si <= Len(s) /\ s[si] \in t.cls
         IN  CASE t.q = "one" ->
                    here /\ MatchFrom(toks, ti + 1, s, si + 1, anchored)
               [] t.q = "opt" ->
                    \/ MatchFrom(toks, ti + 1, s, si, anchored)
                    \/ here /\ MatchFrom(toks, ti + 1, s, si + 1, anchored)
               [] OTHER ->
                    \/ MatchFrom(toks, ti + 1, s, si, anchored)
                    \/ here /\ MatchFrom(toks, ti, s, si + 1, anchored)

\* One character of address_pattern after re.escape and the two replace
\* calls: "?" becomes \w?, "*" becomes [\w|\+]*, anything else is literal.
EscapedToken(c) ==
    IF c = "?" THEN [cls |-> WordChars, q |-> "opt"]
    ELSE IF c = "*" THEN [cls |-> WordChars \cup {"|", "+"}, q |-> "star"]
    ELSE Lit(c)

\* The compiled pattern of handlers_for_address, without its trailing "$".
pattern(address_pattern) ==
    [i \in 1 .. Len(address_pattern) |-> EscapedToken(address_pattern[i])]

RECURSIVE RawRegex(_)
\* addr.replace("*", "[^/]*?/*") read as a regular expression: the
\* registered address is not escaped, so a "?" or "+" after a literal
\* quantifies it and a "?" after a quantifier makes it lazy.
RawRegex(addr) ==
    IF addr = <<>> THEN <<>>
    ELSE LET init == RawRegex(SubSeq(addr, 1, Len(addr) - 1))
             c == addr[Len(addr)]
             n == Len(init)
         IN  CASE c = "*" ->
                    init \o << [cls |-> Char \ {"/"}, q |-> "star"],
                               [cls |-> {"/"}, q |-> "star"] >>
               [] c = "?" /\ n > 0 /\ init[n].q = "one" ->
                    [init EXCEPT ![n].q = "opt"]
               [] c = "?" /\ n > 0 /\ init[n].q # "one" ->
                    init
               [] c = "+" /\ n > 0 /\ init[n].q = "one" ->
                    init \o << [cls |-> init[n].cls, q |-> "star"] >>
               [] OTHER -> init \o << Lit(c) >>

Contains(s, c) == \E i \in 1 .. Len(s) : s[i] = c

\* The condition of the loop of handlers_for_address for one registered
\* address addr and the queried address_pattern.
AddrMatches(addr, address_pattern) ==
    \/ MatchFrom(pattern(address_pattern), 1, addr, 1, TRUE)
    \/ /\ Contains(addr, "*")
       /\ MatchFrom(RawRegex(addr), 1, address_pattern, 1, FALSE)

(***************************************************************************)
(* Handler (dispatcher.py).  id is the identity of the Python object; the  *)
(* value None is the record NoHandler.                                     *)
(***************************************************************************)
NoHandler ==
    [id |-> 0, callback |-> "None", args |-> <<>>, needs_reply_address |-> FALSE]

\* Handler.__init__
Handler(id, _callback, _args, _needs_reply_address) ==
    [id |-> id, callback |-> _callback, args |-> _args,
     needs_reply_address |-> _needs_reply_address]

\* Equality by identity, as of objects without __eq__.
HandlerIs(self, other) == self.id = other.id

\* Handler.__eq__ : every handler of the model is an instance of Handler,
\* so isinstance(self, type(other)) holds.
HandlerEq(self, other) ==
    /\ self.callback = other.callback
    /\ self.args = other.args
    /\ self.needs_reply_address = other.needs_reply_address

\* One positional argument of a callback invocation.
PeerArg(client_address) == [kind |-> "client_address", s |-> client_address, n |-> <<>>]
AddressArg(address) == [kind |-> "address", s |-> address, n |-> <<>>]
FixedArg(args) == [kind |-> "fixed_args", s |-> <<>>, n |-> args]
OscArgs(params) == [i \in 1 .. Len(params) |-> [kind |-> "osc_arg", s |-> <<>>, n |-> <<params[i]>>]]

\* An invoke that passes the fixed arguments even when there are none.
invokeAlwaysFixed(self, client_address, message) ==
    IF self.needs_reply_address
    THEN <<PeerArg(client_address), AddressArg(message.address), FixedArg(self.args)>>
         \o OscArgs(message.params)
    ELSE <<AddressArg(message.address), FixedArg(self.args)>> \o OscArgs(message.params)

\* Handler.invoke: the positional arguments the callback is called with.
\* self.args is a list, which is true when it is not empty.
invoke(self, client_address, message) ==
    IF self.needs_reply_address
    THEN IF self.args # <<>>
         THEN <<PeerArg(client_address), AddressArg(message.address), FixedArg(self.args)>>
              \o OscArgs(message.params)
         ELSE <<PeerArg(client_address), AddressArg(message.address)>>
              \o OscArgs(message.params)
    ELSE IF self.args # <<>>
         THEN <<AddressArg(message.address), FixedArg(self.args)>> \o OscArgs(message.params)
         ELSE <<AddressArg(message.address)>> \o OscArgs(message.params)

\* The positional arguments of handler.callback(...) as
\* async_call_handlers_for_packet writes them out: with
\* needs_reply_address, handler.args is passed whether or not it is empty.
AsyncCallArgs(handler, client_address, message) ==
    IF handler.needs_reply_address
    THEN <<PeerArg(client_address), AddressArg(message.address), FixedArg(handler.args)>>
         \o OscArgs(message.params)
    ELSE IF handler.args # <<>>
         THEN <<AddressArg(message.address), FixedArg(handler.args)>>
              \o OscArgs(message.params)
         ELSE <<AddressArg(message.address)>> \o OscArgs(message.params)

(***************************************************************************)
(* Dispatcher._map, a collections.defaultdict(list).                       *)
(***************************************************************************)
HasKey(m, address) == \E i \in 1 .. Len(m) : m[i].addr = address

KeyIndex(m, address) == CHOOSE i \in 1 .. Len(m) : m[i].addr = address

\* self._map[address] of a defaultdict: a missing key is inserted with an
\* empty list, at the end of the dict.
Touch(m, address) ==
    IF HasKey(m, address) THEN m
    ELSE Append(m, [addr |-> address, handlers |-> <<>>])

\* list.remove(x): the index of the first item equal to x, 0 when there
\* is none (list.remove then raises ValueError).
FirstEqual(handlers, x) ==
    IF \E i \in 1 .. Len(handlers) : HandlerEq(handlers[i], x)
    THEN CHOOSE i \in 1 .. Len(handlers) :
            /\ HandlerEq(handlers[i], x)
            /\ \A j \in 1 .. i - 1 : ~HandlerEq(handlers[j], x)
    ELSE 0

RemoveAt(seq, i) == SubSeq(seq, 1, i - 1) \o SubSeq(seq, i + 1, Len(seq))

\* A map that puts the handler first in the list of its address.
MapPrepend(m, address, handlerobj) ==
    LET t == Touch(m, address)
        k == KeyIndex(t, address)
    IN  [t EXCEPT ![k].handlers = <<handlerobj>> \o @]

\* Dispatcher.map: the dict after self._map[address].append(handlerobj).
MapAppend(m, address, handlerobj) ==
    LET t == Touch(m, address)
        k == KeyIndex(t, address)
    IN  [t EXCEPT ![k].handlers = Append(@, handlerobj)]

\* Dispatcher.unmap: the dict after self._map[address].remove(handler),
\* and whether ValueError is raised.
UnmapRemove(m, address, handler) ==
    LET t == Touch(m, address)
        k == KeyIndex(t, address)
        i == FirstEqual(t[k].handlers, handler)
    IN  IF i = 0
        THEN [map |-> t, raised |-> TRUE]
        ELSE [map |-> [t EXCEPT ![k].handlers = RemoveAt(@, i)], raised |-> FALSE]

(***************************************************************************)
(* Dispatcher.handlers_for_address, a generator.  Its frame is the         *)
(* position in self._map.items() (key), the position in the list that      *)
(* yield from iterates (pos) and the local matched.  GenNext resumes the   *)
(* generator against the dict as it is now.                                *)
(***************************************************************************)
NewGen(address_pattern) ==
    [address_pattern |-> address_pattern, key |-> 1, pos |-> 1,
     matched |-> FALSE, state |-> "running"]

RECURSIVE GenNext(_, _, _)
\* [gen, value]: the generator after the next resumption and the handler
\* it yields; NoHandler when it returns (StopIteration).
GenNext(gen, m, default_handler) ==
    IF gen.state = "finished"
    THEN [gen |-> gen, value |-> NoHandler]
    ELSE IF gen.key > Len(m)
    THEN IF gen.state = "running" /\ ~gen.matched /\ default_handler # NoHandler
         THEN [gen |-> [gen EXCEPT !.state = "default"], value |-> default_handler]
         ELSE [gen |-> [gen EXCEPT !.state = "finished"], value |-> NoHandler]
    ELSE IF AddrMatches(m[gen.key].addr, gen.address_pattern)
    THEN IF gen.pos <= Len(m[gen.key].handlers)
         THEN [gen |-> [gen EXCEPT !.pos = @ + 1], value |-> m[gen.key].handlers[gen.pos]]
         ELSE GenNext([gen EXCEPT !.key = @ + 1, !.pos = 1, !.matched = TRUE],
                      m, default_handler)
    ELSE GenNext([gen EXCEPT !.key = @ + 1, !.pos = 1], m, default_handler)

RECURSIVE Drain(_, _, _)
\* list(generator) against an unchanging dict.
Drain(gen, m, default_handler) ==
    LET r == GenNext(gen, m, default_handler)
    IN  IF r.gen.state = "finished" THEN <<>>
        ELSE <<r.value>> \o Drain(r.gen, m, default_handler)

handlers_for_address(m, default_handler, address_pattern) ==
    Drain(NewGen(address_pattern), m, default_handler)

(***************************************************************************)
(* osc_packet.py: the messages of a parsed packet.  A bundle element is a  *)
(* record [kind, address, params, timestamp, contents]: a message uses     *)
(* address and params, a bundle timestamp and contents.  Times are         *)
(* seconds of the system clock; IMMEDIATELY is the value osc_types.py      *)
(* gives a time tag of 1.                                                  *)
(***************************************************************************)
IMMEDIATELY == 0

Message(address, params) ==
    [kind |-> "message", address |-> address, params |-> params,
     timestamp |-> 0, contents |-> <<>>]

Bundle(timestamp, contents) ==
    [kind |-> "bundle", address |-> <<>>, params |-> <<>>,
     timestamp |-> timestamp, contents |-> contents]

TimedMessage(time, message) == [time |-> time, message |-> message]

RECURSIVE _timed_msg_of_bundle(_, _)
RECURSIVE TimedMsgsFrom(_, _, _)
RECURSIVE TimedMsgsKeepPast(_, _, _)
\* A loop that keeps a time tag of the past as the time of the message.
TimedMsgsKeepPast(bundle, i, now) ==
    IF i > Len(bundle.contents) THEN <<>>
    ELSE LET content == bundle.contents[i]
             msgs == IF content.kind = "message"
                     THEN IF bundle.timestamp = IMMEDIATELY
                          THEN <<TimedMessage(now, content)>>
                          ELSE <<TimedMessage(bundle.timestamp, content)>>
                     ELSE _timed_msg_of_bundle(content, now)
         IN  msgs \o TimedMsgsKeepPast(bundle, i + 1, now)

\* The loop of _timed_msg_of_bundle from content number i on.
TimedMsgsFrom(bundle, i, now) ==
    IF i > Len(bundle.contents) THEN <<>>
    ELSE LET content == bundle.contents[i]
             msgs == IF content.kind = "message"
                     THEN IF bundle.timestamp = IMMEDIATELY \/ bundle.timestamp < now
                          THEN <<TimedMessage(now, content)>>
                          ELSE <<TimedMessage(bundle.timestamp, content)>>
                     ELSE _timed_msg_of_bundle(content, now)
         IN  msgs \o TimedMsgsFrom(bundle, i + 1, now)

_timed_msg_of_bundle(bundle, now) == TimedMsgsFrom(bundle, 1, now)

RECURSIVE InsertBeforeEqual(_, _)
\* An insertion that puts x before the items of equal key.
InsertBeforeEqual(sortedSeq, x) ==
    IF sortedSeq = <<>> THEN <<x>>
    ELSE IF sortedSeq[Len(sortedSeq)].time < x.time
    THEN Append(sortedSeq, x)
    ELSE Append(InsertBeforeEqual(SubSeq(sortedSeq, 1, Len(sortedSeq) - 1), x),
                sortedSeq[Len(sortedSeq)])

RECURSIVE InsertByTime(_, _)
\* x placed in the sorted list after every item whose key is not greater.
InsertByTime(sortedSeq, x) ==
    IF sortedSeq = <<>> THEN <<x>>
    ELSE IF sortedSeq[Len(sortedSeq)].time <= x.time
    THEN Append(sortedSeq, x)
    ELSE Append(InsertByTime(SubSeq(sortedSeq, 1, Len(sortedSeq) - 1), x),
                sortedSeq[Len(sortedSeq)])

RECURSIVE SortedByTime(_)
\* sorted(msgs, key=lambda x: x.time): Python's sort is stable.
SortedByTime(msgs) ==
    IF msgs = <<>> THEN <<>>
    ELSE InsertByTime(SortedByTime(SubSeq(msgs, 1, Len(msgs) - 1)), msgs[Len(msgs)])

\* The place of each message in the document, kept beside it so that the
\* messages of a packet can be told apart.
WithDoc(msgs) ==
    [i \in 1 .. Len(msgs) |->
        [time |-> msgs[i].time, message |-> msgs[i].message, doc |-> i]]

\* OscPacket.__init__ on a datagram that parsed into content (a bundle or
\* a message), now being time.time() as sampled first.
OscPacketMessages(content, now) ==
    IF content.kind = "bundle"
    THEN SortedByTime(WithDoc(_timed_msg_of_bundle(content, now)))
    ELSE WithDoc(<<TimedMessage(now, content)>>)

(***************************************************************************)
(* Bytes and strings.  CharTable gives the code points of the characters   *)
(* the model writes; a character outside the table is named "U+" and its   *)
(* code point.                                                             *)
(***************************************************************************)
CharTable ==
    { <<0, "U+0">>, <<35, "#">>, <<42, "*">>, <<43, "+">>, <<44, ",">>,
      <<47, "/">>, <<63, "?">>, <<70, "F">>, <<78, "N">>, <<84, "T">>,
      <<91, "[">>, <<93, "]">>, <<97, "a">>, <<98, "b">>, <<100, "d">>,
      <<101, "e">>, <<102, "f">>, <<104, "h">>, <<105, "i">>, <<108, "l">>,
      <<109, "m">>, <<110, "n">>, <<114, "r">>, <<115, "s">>, <<116, "t">>,
      <<117, "u">>, <<233, "U+233">> }

ord(c) == (CHOOSE p \in CharTable : p[2] = c)[1]

chr(n) ==
    IF \E p \in CharTable : p[1] = n
    THEN (CHOOSE p \in CharTable : p[1] = n)[2]
    ELSE "U+" \o ToString(n)

RECURSIVE encode(_)
\* str.encode("utf-8"), for code points below 2048.
encode(val) ==
    IF val = <<>> THEN <<>>
    ELSE LET n == ord(Head(val))
         IN  (IF n < 128 THEN <<n>> ELSE <<192 + (n \div 64), 128 + (n % 64)>>)
             \o encode(Tail(val))

\* A continuation byte of UTF-8.
Cont(bytes, i) == i <= Len(bytes) /\ bytes[i] \in 128 .. 191

\* The length of the well-formed UTF-8 sequence at the head of bytes, 0
\* when there is none.
Utf8Len(bytes) ==
    LET b == bytes[1]
    IN  CASE b < 128 -> 1
          [] b \in 194 .. 223 /\ Cont(bytes, 2) -> 2
          [] b = 224 /\ Cont(bytes, 2) /\ bytes[2] >= 160 /\ Cont(bytes, 3) -> 3
          [] b \in (225 .. 239) \ {237} /\ Cont(bytes, 2) /\ Cont(bytes, 3) -> 3
          [] b = 237 /\ Cont(bytes, 2) /\ bytes[2] <= 159 /\ Cont(bytes, 3) -> 3
          [] b = 240 /\ Cont(bytes, 2) /\ bytes[2] >= 144
                     /\ Cont(bytes, 3) /\ Cont(bytes, 4) -> 4
          [] b \in 241 .. 243 /\ Cont(bytes, 2) /\ Cont(bytes, 3) /\ Cont(bytes, 4) -> 4
          [] b = 244 /\ Cont(bytes, 2) /\ bytes[2] <= 143
                     /\ Cont(bytes, 3) /\ Cont(bytes, 4) -> 4
          [] OTHER -> 0

\* The code point of the well-formed sequence of n bytes at the head.
Utf8Point(bytes, n) ==
    CASE n = 1 -> bytes[1]
      [] n = 2 -> (bytes[1] - 192) * 64 + (bytes[2] - 128)
      [] n = 3 -> (bytes[1] - 224) * 4096 + (bytes[2] - 128) * 64 + (bytes[3] - 128)
      [] n = 4 -> (bytes[1] - 240) * 262144 + (bytes[2] - 128) * 4096
                  + (bytes[3] - 128) * 64 + (bytes[4] - 128)

RECURSIVE decode(_)
\* bytes.decode("utf-8"): [err, val].
decode(bytes) ==
    IF bytes = <<>> THEN [err |-> "none", val |-> <<>>]
    ELSE LET n == Utf8Len(bytes)
         IN  IF n = 0 THEN [err |-> "UnicodeDecodeError", val |-> <<>>]
             ELSE LET r == decode(SubSeq(bytes, n + 1, Len(bytes)))
                  IN  [err |-> r.err,
                       val |-> IF r.err = "none"
                               THEN <<chr(Utf8Point(bytes, n))>> \o r.val ELSE <<>>]

\* Where a bound of a Python slice falls in a sequence of len items.
SliceBound(n, len) ==
    IF n < 0 THEN (IF n + len < 0 THEN 0 ELSE n + len)
    ELSE IF n > len THEN len ELSE n

\* s[a:b] and s[a:] of Python.
Slice(s, a, b) == SubSeq(s, SliceBound(a, Len(s)) + 1, SliceBound(b, Len(s)))
SliceFrom(s, a) == SubSeq(s, SliceBound(a, Len(s)) + 1, Len(s))

RECURSIVE Zeros(_)
Zeros(n) == IF n <= 0 THEN <<>> ELSE <<0>> \o Zeros(n - 1)

(***************************************************************************)
(* parsing/osc_types.py.  A get_ function gives [err, val, index].  A      *)
(* number that does not fit 32 bits signed is kept as its bytes (int64,    *)
(* float, double, time tag) or as its two 16-bit halves (an unsigned 32    *)
(* bit number).                                                            *)
(***************************************************************************)
_INT_DGRAM_LEN == 4
_INT64_DGRAM_LEN == 8
_FLOAT_DGRAM_LEN == 4
_DOUBLE_DGRAM_LEN == 8
_TIMETAG_DGRAM_LEN == 8
_STRING_DGRAM_PAD == 4
_BLOB_DGRAM_PAD == 4

Raise(e) == [err |-> e, val |-> <<>>, index |-> 0]
Return(val, index) == [err |-> "none", val |-> val, index |-> index]

write_string(val) ==
    LET dgram == encode(val)
        diff == _STRING_DGRAM_PAD - (Len(dgram) % _STRING_DGRAM_PAD)
    IN  dgram \o Zeros(diff)

RECURSIVE NulOffset(_, _, _)
\* "while dgram[start_index + offset] != 0: offset += 1": the offset the
\* loop ends with, -1 when it ends with IndexError.
NulOffset(dgram, start_index, offset) ==
    IF start_index + offset >= Len(dgram) THEN -1
    ELSE IF dgram[start_index + offset + 1] = 0 THEN offset
    ELSE NulOffset(dgram, start_index, offset + 1)

\* The test of the empty string compares a byte, an int, with the bytes
\* object _EMPTY_STR_DGRAM and is never true.  UnicodeDecodeError is not
\* among the exceptions get_string catches.
get_string(dgram, start_index) ==
    IF start_index < 0 THEN Raise("osc_types.ParseError")
    ELSE LET n == NulOffset(dgram, start_index, 0)
             offset == IF n % _STRING_DGRAM_PAD = 0
                       THEN n + _STRING_DGRAM_PAD
                       ELSE n + ((-n) % _STRING_DGRAM_PAD)
         IN  IF n < 0 THEN Raise("osc_types.ParseError")
             ELSE IF offset > Len(SliceFrom(dgram, start_index))
             THEN Raise("osc_types.ParseError")
             ELSE LET data_str == Slice(dgram, start_index, start_index + offset)
                      d == decode(SelectSeq(data_str, LAMBDA b : b # 0))
                  IN  IF d.err = "none" THEN Return(d.val, start_index + offset)
                      ELSE Raise(d.err)

\* struct.pack(">i", val) for val of 32 bits.
write_int(val) ==
    <<(val \div 16777216) % 256, (val \div 65536) % 256, (val \div 256) % 256, val % 256>>

\* struct.unpack(">i", b)[0].
UnpackInt(b) ==
    (b[1] - (IF b[1] >= 128 THEN 256 ELSE 0)) * 16777216 + b[2] * 65536 + b[3] * 256 + b[4]

\* struct.unpack raises struct.error when the slice is short.
get_int(dgram, start_index) ==
    LET b == Slice(dgram, start_index, start_index + _INT_DGRAM_LEN)
    IN  IF Len(SliceFrom(dgram, start_index)) < _INT_DGRAM_LEN
        THEN Raise("osc_types.ParseError")
        ELSE IF Len(b) # _INT_DGRAM_LEN THEN Raise("osc_types.ParseError")
        ELSE Return(UnpackInt(b), start_index + _INT_DGRAM_LEN)

\* get_int64, get_double and get_timetag: len bytes, kept as they are.
GetBytes(dgram, start_index, len) ==
    LET b == Slice(dgram, start_index, start_index + len)
    IN  IF Len(SliceFrom(dgram, start_index)) < len THEN Raise("osc_types.ParseError")
        ELSE IF Len(b) # len THEN Raise("osc_types.ParseError")
        ELSE Return(b, start_index + len)

\* get_float pads a short datagram with zeros.
get_float(dgram, start_index) ==
    LET short == Len(SliceFrom(dgram, start_index)) < _FLOAT_DGRAM_LEN
        padded == IF short
                  THEN dgram \o Zeros(_FLOAT_DGRAM_LEN - Len(SliceFrom(dgram, start_index)))
                  ELSE dgram
        b == Slice(padded, start_index, start_index + _FLOAT_DGRAM_LEN)
    IN  IF Len(b) # _FLOAT_DGRAM_LEN THEN Raise("osc_types.ParseError")
        ELSE Return(b, start_index + _FLOAT_DGRAM_LEN)

write_blob(val) ==
    IF val = <<>> THEN Raise("osc_types.BuildError")
    ELSE LET dgram == write_int(Len(val)) \o val
         IN  Return(dgram \o Zeros((-Len(dgram)) % _BLOB_DGRAM_PAD), 0)

\* get_blob once the size is read into r.
BlobOf(dgram, start_index, r) ==
    LET size == r.val
        int_offset == r.index
        total_size == size + ((-size) % _BLOB_DGRAM_PAD)
        end_index == int_offset + size
    IN  IF r.err # "none" THEN r
        ELSE IF end_index - start_index > Len(SliceFrom(dgram, start_index))
        THEN Raise("osc_types.ParseError")
        ELSE Return(Slice(dgram, int_offset, int_offset + size), int_offset + total_size)

get_blob(dgram, start_index) == BlobOf(dgram, start_index, get_int(dgram, start_index))

\* struct.pack(">I", val), val being <<high half, low half>>.
write_rgba(val) == <<val[1] \div 256, val[1] % 256, val[2] \div 256, val[2] % 256>>

get_rgba(dgram, start_index) ==
    LET b == Slice(dgram, start_index, start_index + _INT_DGRAM_LEN)
    IN  IF Len(SliceFrom(dgram, start_index)) < _INT_DGRAM_LEN
        THEN Raise("osc_types.ParseError")
        ELSE IF Len(b) # _INT_DGRAM_LEN THEN Raise("osc_types.ParseError")
        ELSE Return(<<b[1] * 256 + b[2], b[3] * 256 + b[4]>>, start_index + _INT_DGRAM_LEN)

\* sum((value & 0xFF) << 8 * (3 - pos)) packed: one byte for each value.
write_midi(val) ==
    IF Len(val) # 4 THEN Raise("osc_types.BuildError")
    ELSE Return([pos \in 1 .. 4 |-> val[pos] % 256], 0)

get_midi(dgram, start_index) ==
    LET b == Slice(dgram, start_index, start_index + _INT_DGRAM_LEN)
    IN  IF Len(SliceFrom(dgram, start_index)) < _INT_DGRAM_LEN
        THEN Raise("osc_types.ParseError")
        ELSE IF Len(b) # _INT_DGRAM_LEN THEN Raise("osc_types.ParseError")
        ELSE Return(b, start_index + _INT_DGRAM_LEN)

\* ntp.IMMEDIATELY, struct.pack(">Q", 1).
ntp_IMMEDIATELY == <<0, 0, 0, 0, 0, 0, 0, 1>>

\* The two 16-bit halves of ntp._NTP_DELTA, 2208988800.
_NTP_DELTA_HIGH == 33706
_NTP_DELTA_LOW == 32384

\* timetag * _NTP_TIMESTAMP_TO_SECONDS - _NTP_DELTA in whole seconds,
\* the fraction of the time tag left out; a date before 1902 is given as
\* the earliest second that fits 32 bits.
ntp_time_to_system_epoch(b) ==
    LET high == b[1] * 256 + b[2] - _NTP_DELTA_HIGH
        low == b[3] * 256 + b[4] - _NTP_DELTA_LOW
    IN  IF high < -32767 THEN (-32767) * 65536 - _NTP_DELTA_LOW
        ELSE high * 65536 + low

\* system_time_to_ntp for a whole second from 1970 on.
write_date(system_time) ==
    IF system_time = IMMEDIATELY THEN ntp_IMMEDIATELY
    ELSE LET low == (system_time + _NTP_DELTA_LOW) % 65536
             high == _NTP_DELTA_HIGH + ((system_time + _NTP_DELTA_LOW) \div 65536)
         IN  <<high \div 256, high % 256, low \div 256, low % 256, 0, 0, 0, 0>>

get_date(dgram, start_index) ==
    LET b == Slice(dgram, start_index, start_index + _TIMETAG_DGRAM_LEN)
    IN  IF b = ntp_IMMEDIATELY
        THEN Return(IMMEDIATELY, start_index + _TIMETAG_DGRAM_LEN)
        ELSE IF Len(SliceFrom(dgram, start_index)) < _TIMETAG_DGRAM_LEN
        THEN Raise("osc_types.ParseError")
        ELSE IF Len(b) # _TIMETAG_DGRAM_LEN THEN Raise("osc_types.ParseError")
        ELSE Return(ntp_time_to_system_epoch(b), start_index + _TIMETAG_DGRAM_LEN)

(***************************************************************************)
(* osc_message.py.  A Python value is [kind, val]: kind is its type       *)
(* ("int", "str", "bytes", "bool", "None", "tuple", "list") or, for a      *)
(* number kept as bytes or halves, the name of its encoding.               *)
(***************************************************************************)
Value(kind, val) == [kind |-> kind, val |-> val]
None == Value("None", "None")

\* val, index = osc_types.get_...(self._dgram, index) for the type tag
\* param, and the value of a tag that has no bytes.
GetParam(param, dgram, index) ==
    LET Typed(kind, r) == [err |-> r.err, val |-> Value(kind, r.val), index |-> r.index]
    IN  CASE param = "i" -> Typed("int", get_int(dgram, index))
          [] param = "h" -> Typed("int64", GetBytes(dgram, index, _INT64_DGRAM_LEN))
          [] param = "f" -> Typed("float", get_float(dgram, index))
          [] param = "d" -> Typed("double", GetBytes(dgram, index, _DOUBLE_DGRAM_LEN))
          [] param = "s" -> Typed("str", get_string(dgram, index))
          [] param = "b" -> Typed("bytes", get_blob(dgram, index))
          [] param = "r" -> Typed("uint32", get_rgba(dgram, index))
          [] param = "m" -> Typed("tuple", get_midi(dgram, index))
          [] param = "t" -> Typed("timetag", GetBytes(dgram, index, _TIMETAG_DGRAM_LEN))
          [] param = "T" -> Return(Value("bool", TRUE), index)
          [] param = "F" -> Return(Value("bool", FALSE), index)
          [] param = "N" -> Return(None, index)

ValueTags == {"i", "h", "f", "d", "s", "b", "r", "m", "t", "T", "F", "N"}

RECURSIVE ParseParams(_, _, _, _, _)
\* A parser that appended every value to params itself, whatever arrays are
\* open.
AppendParamOutermost(dgram, type_tag, k, param_stack, r) ==
    IF r.err # "none" THEN Raise(r.err)
    ELSE ParseParams(dgram, type_tag, k + 1, r.index,
             [param_stack EXCEPT ![1] = Append(@, r.val)])

\* The end of a turn of the loop that read the value r: the value is
\* appended to the innermost open array.
AppendParam(dgram, type_tag, k, param_stack, r) ==
    IF r.err # "none" THEN Raise(r.err)
    ELSE ParseParams(dgram, type_tag, k + 1, r.index,
             [param_stack EXCEPT ![Len(param_stack)] = Append(@, r.val)])

\* The loop "for param in type_tag" from character k on, and the test of
\* param_stack after it.  An array is put in its parent when it is closed;
\* the code puts it there when it is opened and fills it in place.
ParseParams(dgram, type_tag, k, index, param_stack) ==
    IF k > Len(type_tag)
    THEN IF Len(param_stack) # 1 THEN Raise("osc_message.ParseError")
         ELSE Return(param_stack[1], index)
    ELSE LET param == type_tag[k]
             top == Len(param_stack)
         IN  IF param \in ValueTags
             THEN AppendParam(dgram, type_tag, k, param_stack, GetParam(param, dgram, index))
             ELSE IF param = "["
             THEN ParseParams(dgram, type_tag, k + 1, index, Append(param_stack, <<>>))
             ELSE IF param = "]"
             THEN IF top < 2 THEN Raise("osc_message.ParseError")
                  ELSE ParseParams(dgram, type_tag, k + 1, index,
                           [SubSeq(param_stack, 1, top - 1) EXCEPT
                               ![top - 1] = Append(@, Value("list", param_stack[top]))])
             ELSE ParseParams(dgram, type_tag, k + 1, index, param_stack)

\* "except osc_types.ParseError as pe: raise ParseError(...)": the
\* exception that leaves _parse_datagram when e was raised in it.
MessageFailed(e) ==
    [err |-> IF e = "osc_types.ParseError" THEN "osc_message.ParseError" ELSE e,
     content |-> Message(<<>>, <<>>), dgram |-> <<>>]

\* _parse_datagram once the parameters are parsed into p: what follows
\* the parameters is cut from self._dgram.
ParamsParsed(dgram, address, p) ==
    IF p.err # "none" THEN MessageFailed(p.err)
    ELSE [err |-> "none", content |-> Message(address, p.val),
          dgram |-> IF p.index < Len(dgram) THEN Slice(dgram, 0, p.index) ELSE dgram]

\* _parse_datagram once the type tag string is read into t.
TypeTagParsed(dgram, address, t) ==
    IF t.err # "none" THEN MessageFailed(t.err)
    ELSE ParamsParsed(dgram, address,
             ParseParams(dgram,
                         IF t.val # <<>> /\ Head(t.val) = "," THEN Tail(t.val) ELSE t.val,
                         1, t.index, << <<>> >>))

\* _parse_datagram once the address is read into a.
AddressParsed(dgram, a) ==
    IF a.err # "none" THEN MessageFailed(a.err)
    ELSE IF SliceFrom(dgram, a.index) = <<>>
    THEN [err |-> "none", content |-> Message(a.val, <<>>), dgram |-> dgram]
    ELSE TypeTagParsed(dgram, a.val, get_string(dgram, a.index))

\* OscMessage(dgram): [err, content, dgram], content being the message
\* parsed and dgram its datagram.
_parse_datagram(dgram) == AddressParsed(dgram, get_string(dgram, 0))

dgram_is_message(dgram) == dgram # <<>> /\ dgram[1] = ord("/")

(***************************************************************************)
(* osc_bundle.py.                                                          *)
(***************************************************************************)
_BUNDLE_PREFIX == <<35, 98, 117, 110, 100, 108, 101, 0>>

dgram_is_bundle(dgram) ==
    Len(dgram) >= Len(_BUNDLE_PREFIX) /\ SubSeq(dgram, 1, Len(_BUNDLE_PREFIX)) = _BUNDLE_PREFIX

RECURSIVE OscBundle(_)
RECURSIVE _parse_contents(_, _, _)
\* The exception that leaves _parse_contents when e was raised in it:
\* "except (osc_types.ParseError, osc_message.ParseError, IndexError)".
ContentsFailed(e) ==
    [err |-> IF e \in {"osc_types.ParseError", "osc_message.ParseError"}
             THEN "osc_bundle.ParseError" ELSE e,
     val |-> <<>>]

\* The content datagram parsed into an OSC message or bundle; a datagram
\* that is neither is logged and left out.
ParseContent(content_dgram) ==
    IF dgram_is_bundle(content_dgram) THEN OscBundle(content_dgram)
    ELSE IF dgram_is_message(content_dgram) THEN _parse_datagram(content_dgram)
    ELSE [err |-> "skipped", content |-> Message(<<>>, <<>>)]

\* The contents, element parsed and rest being the later contents.
ContentsFrom(element, rest) ==
    IF rest.err # "none" THEN rest
    ELSE [err |-> "none",
          val |-> IF element.err = "skipped" THEN rest.val
                  ELSE <<element.content>> \o rest.val]

\* A turn of the loop once the content is parsed into element.
ContentParsed(dgram, index, indices, element) ==
    IF element.err \notin {"none", "skipped"} THEN ContentsFailed(element.err)
    ELSE ContentsFrom(element, _parse_contents(dgram, index, indices))

\* A turn of the loop once the size is read into s.
SizeParsed(dgram, indices, s) ==
    IF s.err # "none" THEN ContentsFailed(s.err)
    ELSE ContentParsed(dgram, s.index + s.val, indices,
                       ParseContent(Slice(dgram, s.index, s.index + s.val)))

\* The loop "while self._dgram[index:]": [err, val], val being the
\* contents.  What a turn of the loop does depends on index alone, so the
\* loop does not end once it is at an index it was at before (indices is
\* where it was): the result is then "NoReturn".
_parse_contents(dgram, index, indices) ==
    IF SliceFrom(dgram, index) = <<>> THEN [err |-> "none", val |-> <<>>]
    ELSE IF index \in indices THEN [err |-> "NoReturn", val |-> <<>>]
    ELSE SizeParsed(dgram, indices \cup {index}, get_int(dgram, index))

\* OscBundle.__init__ once the contents are parsed into c.
BundleOf(timestamp, c) ==
    IF c.err # "none" THEN [err |-> c.err, content |-> Bundle(IMMEDIATELY, <<>>)]
    ELSE [err |-> "none", content |-> Bundle(timestamp, c.val)]

\* OscBundle.__init__ once the date is read into d.
DateParsed(dgram, d) ==
    IF d.err # "none"
    THEN [err |-> "osc_bundle.ParseError", content |-> Bundle(IMMEDIATELY, <<>>)]
    ELSE BundleOf(d.val, _parse_contents(dgram, d.index, {}))

\* OscBundle(dgram): [err, content], content being the bundle parsed.
OscBundle(dgram) == DateParsed(dgram, get_date(dgram, Len(_BUNDLE_PREFIX)))

\* "except (osc_bundle.ParseError, osc_message.ParseError) as pe: raise
\* ParseError(...)": the ParseError of osc_packet is "ParseError" here.
PacketOf(r) ==
    [err |-> IF r.err \in {"osc_bundle.ParseError", "osc_message.ParseError"}
             THEN "ParseError" ELSE r.err,
     content |-> r.content]

\* The try block of OscPacket.__init__: [err, content].
OscPacket(dgram) ==
    IF dgram_is_bundle(dgram) THEN PacketOf(OscBundle(dgram))
    ELSE IF dgram_is_message(dgram) THEN PacketOf(_parse_datagram(dgram))
    ELSE [err |-> "ParseError", content |-> Bundle(IMMEDIATELY, <<>>)]

(***************************************************************************)
(* osc_message_builder.py and osc_bundle_builder.py.  A type of the        *)
(* builder is [tag, items]: a type tag, or "list" with the types of the    *)
(* items.  An int of the model has at most 32 bits, so that _get_arg_type  *)
(* gives it the tag "i".  A Python int of any size is a value of kind      *)
(* "long": [neg, mag], its sign and the bytes of its absolute value, the   *)
(* first one not 0, none for 0.                                            *)
(***************************************************************************)
ArgType(tag, items) == [tag |-> tag, items |-> items]
NoType == ArgType("None", <<>>)

Long(neg, mag) == Value("long", [neg |-> neg, mag |-> mag])

\* The bits of a byte, without leading zeros.
ByteBits(b) == CHOOSE k \in 0 .. 8 : b < 2 ^ k /\ (k = 0 \/ b >= 2 ^ (k - 1))

\* int.bit_length(): the bits of the absolute value.
bit_length(v) == IF v.mag = <<>> THEN 0 ELSE 8 * (Len(v.mag) - 1) + ByteBits(v.mag[1])

RECURSIVE PlusOne(_)
\* One more than the number of the bytes b, in as many bytes.
PlusOne(b) ==
    IF b = <<>> THEN <<>>
    ELSE IF b[Len(b)] < 255 THEN [b EXCEPT ![Len(b)] = @ + 1]
    ELSE Append(PlusOne(SubSeq(b, 1, Len(b) - 1)), 0)

\* struct.pack of v as a signed integer of n bytes, ">i" or ">q":
\* [err, val].  struct.error unless -2^(8n-1) <= v < 2^(8n-1).
pack_signed(v, n) ==
    IF \/ Len(v.mag) > n
       \/ Len(v.mag) = n /\ v.mag[1] >= 128
                         /\ ~(v.neg /\ v.mag = <<128>> \o Zeros(n - 1))
    THEN Raise("struct.error")
    ELSE IF v.neg
    THEN Return(PlusOne([i \in 1 .. n |-> 255 - (Zeros(n - Len(v.mag)) \o v.mag)[i]]), 0)
    ELSE Return(Zeros(n - Len(v.mag)) \o v.mag, 0)

RECURSIVE _get_arg_type(_)
_get_arg_type(arg_value) ==
    CASE arg_value.kind = "str" -> ArgType("s", <<>>)
      [] arg_value.kind = "bytes" -> ArgType("b", <<>>)
      [] arg_value.kind = "bool" -> ArgType(IF arg_value.val THEN "T" ELSE "F", <<>>)
      [] arg_value.kind = "int" -> ArgType("i", <<>>)
      [] arg_value.kind = "long" ->
            ArgType(IF bit_length(arg_value.val) > 32 THEN "h" ELSE "i", <<>>)
      [] arg_value.kind = "tuple" /\ Len(arg_value.val) = 4 -> ArgType("m", <<>>)
      [] arg_value.kind = "list" ->
            ArgType("list", [i \in 1 .. Len(arg_value.val) |-> _get_arg_type(arg_value.val[i])])
      [] arg_value.kind = "None" -> ArgType("N", <<>>)
      [] OTHER -> ArgType("ValueError", <<>>)

RECURSIVE add_arg(_, _, _)
RECURSIVE AddZipped(_, _, _, _)
\* "for v, t in zip(arg_value, arg_type): self.add_arg(v, t)" from pair i.
AddZipped(args, values, types, i) ==
    IF i > Len(values) \/ i > Len(types) THEN args
    ELSE AddZipped(add_arg(args, values[i], types[i]), values, types, i + 1)

\* self._args after add_arg(arg_value, arg_type), args being self._args
\* before; arg_type is a supported type or NoType.
add_arg(args, arg_value, arg_type) ==
    LET t == IF arg_type = NoType THEN _get_arg_type(arg_value) ELSE arg_type
    IN  IF t.tag = "list"
        THEN Append(AddZipped(Append(args, [type |-> "[", value |-> None]),
                              arg_value.val, t.items, 1),
                    [type |-> "]", value |-> None])
        ELSE Append(args, [type |-> t.tag, value |-> arg_value])

RECURSIVE WriteArgs(_, _)
\* "for arg_type, value in self._args" from argument i on: [err, val],
\* val being the bytes written.
WriteArgs(args, i) ==
    IF i > Len(args) THEN Return(<<>>, 0)
    ELSE LET arg_type == args[i].type
             value == args[i].value.val
             w == CASE arg_type = "s" -> Return(write_string(value), 0)
                    [] arg_type = "i" /\ args[i].value.kind = "long" -> pack_signed(value, 4)
                    [] arg_type = "h" /\ args[i].value.kind = "long" -> pack_signed(value, 8)
                    [] arg_type = "i" /\ args[i].value.kind # "long" -> Return(write_int(value), 0)
                    [] arg_type = "h" /\ args[i].value.kind # "long" -> Return(value, 0)
                    [] arg_type \in {"f", "d"} -> Return(value, 0)
                    [] arg_type = "b" -> write_blob(value)
                    [] arg_type = "r" -> Return(write_rgba(value), 0)
                    [] arg_type = "m" -> write_midi(value)
                    [] arg_type \in {"T", "F", "[", "]", "N"} -> Return(<<>>, 0)
                    [] OTHER -> Raise("BuildError")
             rest == WriteArgs(args, i + 1)
         IN  IF w.err # "none" THEN Raise("BuildError")
             ELSE IF rest.err # "none" THEN rest
             ELSE Return(w.val \o rest.val, 0)

\* build once the arguments are written.
ArgsWritten(head, written) ==
    IF written.err # "none"
    THEN [err |-> "BuildError", content |-> Message(<<>>, <<>>), dgram |-> <<>>]
    ELSE _parse_datagram(head \o written.val)

\* OscMessageBuilder.build: [err, content, dgram], content being the
\* OscMessage made of dgram.
build(address, args) ==
    IF address = <<>>
    THEN [err |-> "BuildError", content |-> Message(<<>>, <<>>), dgram |-> <<>>]
    ELSE IF args = <<>>
    THEN ArgsWritten(write_string(address) \o write_string(<<",">>), Return(<<>>, 0))
    ELSE ArgsWritten(write_string(address)
                     \o write_string(<<",">> \o [i \in 1 .. Len(args) |-> args[i].type]),
                     WriteArgs(args, 1))

RECURSIVE WriteContents(_)
\* "for content in self._contents" of OscBundleBuilder.build, contents
\* being the datagrams of the contents.
WriteContents(contents) ==
    IF contents = <<>> THEN <<>>
    ELSE write_int(Len(Head(contents))) \o Head(contents) \o WriteContents(Tail(contents))

\* The datagram OscBundleBuilder.build makes.
build_bundle(timestamp, contents) ==
    _BUNDLE_PREFIX \o write_date(timestamp) \o WriteContents(contents)

(***************************************************************************)
(* State.                                                                  *)
(***************************************************************************)
VARIABLES
    _map,               \* Dispatcher._map
    _default_handler,   \* Dispatcher._default_handler
    nextId,             \* identity of the next object created
    opCount,            \* calls of map, unmap, set_default_handler so far
    apiExc,             \* the exception the last such call raised, or "none"
    mapLog,             \* the map calls so far: [addr, handler], in order
    lastApi,            \* the last such call: "map", "unmap", ...
    pc,                 \* where call_handlers_for_packet is
    packet,             \* packet.messages
    idx,                \* position of the loop over packet.messages
    gen,                \* the generator bound to handlers
    clock,              \* time.time()
    results,            \* results
    calls,              \* the callback invocations made, in order
    waits,              \* the time.sleep calls made, in order
    content,            \* what the datagram parsed into
    pktNow,             \* now of OscPacket.__init__
    exc,                \* the exception that left call_handlers_for_packet
    data,               \* the datagram given to call_handlers_for_packet
    builder_address,    \* OscMessageBuilder._address
    builder_args,       \* OscMessageBuilder._args
    added,              \* the values given to add_arg, in order
    msg,                \* what build gave: [err, content, dgram]
    buildState,         \* "open" until build is called, then "built"
    registered,         \* the address a handler is mapped at
    queried,            \* the address handlers_for_address is asked for
    fwd,                \* is the handler at registered yielded for queried
    back,               \* is a handler at queried yielded for registered
    slip_msg,           \* the message given to slip.encode
    slip_packet,        \* what slip.encode returned
    slip_decoded,       \* what slip.decode made of slip_packet: [err, val]
    slip_valid,         \* what slip.is_valid said of slip_packet
    slipState,          \* "new", "encoded", "decoded"
    mode,               \* the connection handler that runs
    stream,             \* the bytes the peer sent that are not read yet
    peerPackets,        \* the packets the peer framed into the stream
    peerWhole,          \* how many of them lie wholly before the peer closed
    hpc,                \* where the connection handler is
    buf,                \* buf of the handler (recvall, handle1_0, ...)
    count,              \* the bytes still to read (count, length)
    wire,               \* dispatches, callback calls and writes, in order
    hexc,               \* the exception that left the handler, or "none"
    writer,             \* "open", "closed": the StreamWriter of the async server
    sawEof,             \* a read has returned zero bytes
    readAfterEof,       \* a read was made after one had returned zero bytes
    splits,             \* where a read of mode 1.0 returned a part of what was asked for
    tasks,              \* the frame of each thread or task that dispatches a packet
    loop,               \* the task the event loop runs, or 0 when it is idle
    trace,              \* what the threads or tasks did, in order
    listener,           \* the AsyncOSCTCPServer: _server, start, stop, connections
    applied             \* the calls of a function under study: [fn, args, err, val, index]

tableVars == <<_map, _default_handler, nextId, opCount, apiExc, mapLog, lastApi>>
dispVars == <<pc, packet, idx, gen, clock, results, calls, waits, content, pktNow, exc>>
builderVars == <<builder_address, builder_args, added, msg, buildState>>
matchVars == <<registered, queried, fwd, back>>
slipVars == <<slip_msg, slip_packet, slip_decoded, slip_valid, slipState>>
srvVars ==
    <<mode, stream, peerPackets, peerWhole, hpc, buf, count, wire, hexc, writer,
      sawEof, readAfterEof, splits>>
taskVars == <<tasks, loop, trace, listener, applied>>
transportVars == <<matchVars, slipVars, srvVars, taskVars>>
vars == <<tableVars, dispVars, data, builderVars, transportVars>>

\* Strings of the model.
AddrA == <<"/", "a">>
AddrB == <<"/", "b">>
AddrStar == <<"/", "*">>
AddrQ == <<"/", "?">>
ReplyAddr == <<"/", "r">>
ClientAddress == <<"10.0.0.1", "9000">>

\* What a callback of the model does when called: cb1 returns None, cb2
\* returns an address to reply to, cb3 returns None or raises.
Outcomes(callback) ==
    CASE callback = "cb2" -> {"reply"}
      [] callback = "cb3" -> {"none", "raise"}
      [] OTHER -> {"none"}

DispatchIdle ==
    /\ pc = "idle" /\ packet = <<>> /\ idx = 1 /\ gen = NewGen(<<>>)
    /\ results = <<>> /\ calls = <<>> /\ waits = <<>>
    /\ content = Bundle(IMMEDIATELY, <<>>) /\ pktNow = 0 /\ exc = "none"
    /\ data = <<>>

\* No lookup is made.
NoMatch == registered = <<>> /\ queried = <<>> /\ fwd = "unknown" /\ back = "unknown"

\* No SLIP codec is in use.
NoSlip ==
    /\ slip_msg = <<>> /\ slip_packet = <<>>
    /\ slip_decoded = [err |-> "none", val |-> <<>>, index |-> 0]
    /\ slip_valid = "unknown" /\ slipState = "none"

\* No connection is open.
NoServer ==
    /\ mode = "none" /\ stream = <<>> /\ peerPackets = <<>> /\ peerWhole = 0
    /\ hpc = "none" /\ buf = <<>> /\ count = 0 /\ wire = <<>> /\ hexc = "none"
    /\ writer = "none" /\ sawEof = FALSE /\ readAfterEof = FALSE /\ splits = {}

\* No thread or task dispatches and no AsyncOSCTCPServer exists.
NoListener ==
    [_server |-> "None", start |-> "none", stop |-> "none", exit |-> "none",
     late |-> FALSE]

NoTasks ==
    /\ tasks = <<>> /\ loop = 0 /\ trace = <<>> /\ listener = NoListener /\ applied = <<>>

NoTransport == NoMatch /\ NoSlip /\ NoServer /\ NoTasks

\* No builder is in use.
NoBuilder ==
    /\ builder_address = <<>> /\ builder_args = <<>> /\ added = <<>>
    /\ msg = [err |-> "none", content |-> Message(<<>>, <<>>), dgram |-> <<>>]
    /\ buildState = "none"

(***************************************************************************)
(* Dispatcher.map, unmap, set_default_handler.                             *)
(***************************************************************************)
map(address, handler, args, needs_reply_address) ==
    /\ pc = "idle" /\ opCount < MaxOps
    /\ LET handlerobj == Handler(nextId, handler, args, needs_reply_address)
       IN  /\ _map' = MapAppend(_map, address, handlerobj)
           /\ mapLog' = Append(mapLog, [addr |-> address, handler |-> handlerobj])
    /\ nextId' = nextId + 1
    /\ opCount' = opCount + 1
    /\ apiExc' = "none"
    /\ lastApi' = "map"
    /\ UNCHANGED _default_handler
    /\ UNCHANGED <<dispVars, data, builderVars, transportVars>>

\* unmap(address, handler): handler is a Handler when isHandler, the one
\* map returned; otherwise it is rebuilt from callback, args and
\* needs_reply_address as a new object.
unmap(address, handler, isHandler) ==
    /\ pc = "idle" /\ opCount < MaxOps
    /\ LET h == IF isHandler THEN handler
                ELSE Handler(nextId, handler.callback, handler.args,
                             handler.needs_reply_address)
           r == UnmapRemove(_map, address, h)
       IN  /\ _map' = r.map
           /\ apiExc' = IF r.raised THEN "ValueError" ELSE "none"
    /\ nextId' = IF isHandler THEN nextId ELSE nextId + 1
    /\ opCount' = opCount + 1
    /\ lastApi' = "unmap"
    /\ UNCHANGED <<_default_handler, mapLog>>
    /\ UNCHANGED <<dispVars, data, builderVars, transportVars>>

set_default_handler(handler, needs_reply_address) ==
    /\ pc = "idle" /\ opCount < MaxOps
    /\ _default_handler' = IF handler = "None" THEN NoHandler
                           ELSE Handler(nextId, handler, <<>>, needs_reply_address)
    /\ nextId' = nextId + 1
    /\ opCount' = opCount + 1
    /\ apiExc' = "none"
    /\ lastApi' = "set_default_handler"
    /\ UNCHANGED <<_map, mapLog>>
    /\ UNCHANGED <<dispVars, data, builderVars, transportVars>>

(***************************************************************************)
(* Dispatcher.call_handlers_for_packet, step by step.  parsed is what      *)
(* OscBundle(dgram) or OscMessage(dgram) gives: [err, content].            *)
(***************************************************************************)
\* results = list(); packet = osc_packet.OscPacket(data)
Receive(parsed) ==
    /\ pc = "idle"
    /\ results' = <<>> /\ calls' = <<>> /\ waits' = <<>>
    /\ idx' = 1
    /\ pktNow' = clock
    /\ content' = parsed.content
    /\ packet' = IF parsed.err = "none"
                 THEN OscPacketMessages(parsed.content, clock) ELSE <<>>
    /\ pc' = CASE parsed.err = "none" -> "loop"
               [] parsed.err = "ParseError" -> "returned"
               [] parsed.err = "NoReturn" -> "hung"
               [] OTHER -> "raised"
    /\ exc' = IF parsed.err \in {"none", "ParseError", "NoReturn"} THEN "none"
              ELSE parsed.err
    /\ UNCHANGED <<gen, clock>>
    /\ UNCHANGED <<tableVars, builderVars, transportVars>>

\* call_handlers_for_packet on a datagram that parses into content.
ReceiveParsed(parsedContent) ==
    /\ Receive([err |-> "none", content |-> parsedContent])
    /\ UNCHANGED data

\* call_handlers_for_packet(dgram, client_address).
ReceiveData(dgram) ==
    /\ Receive(OscPacket(dgram))
    /\ data' = dgram

\* A dispatcher that never sleeps.
WaitForNothing(timed_msg, now) == 0

\* The seconds call_handlers_for_packet sleeps before the handlers of
\* timed_msg: "if timed_msg.time > now: time.sleep(timed_msg.time - now)".
WaitFor(timed_msg, now) ==
    IF timed_msg.time > now THEN timed_msg.time - now ELSE 0

\* The head of the loop over packet.messages: now = time.time(), the
\* generator is created (a generator object is never false, so the
\* continue is not taken), time.sleep when the message is for later.
\* time.sleep(secs) returns after secs seconds or later.
NextMessage(late) ==
    /\ pc = "loop"
    /\ IF idx > Len(packet)
       THEN /\ pc' = "returned"
            /\ UNCHANGED <<gen, clock, waits>>
       ELSE LET timed_msg == packet[idx]
                now == clock
            IN  /\ gen' = NewGen(timed_msg.message.address)
                /\ IF WaitFor(timed_msg, now) > 0
                   THEN /\ clock' = now + WaitFor(timed_msg, now) + late
                        /\ waits' = Append(waits, [doc |-> timed_msg.doc, now |-> now,
                                                   secs |-> WaitFor(timed_msg, now)])
                   ELSE UNCHANGED <<clock, waits>>
                /\ pc' = "handlers"
    /\ UNCHANGED <<packet, idx, results, calls, content, pktNow, exc>>
    /\ UNCHANGED <<tableVars, data, builderVars, transportVars>>

\* One turn of "for handler in handlers": the generator is resumed and
\* the handler it yields is invoked; the callback runs for run seconds and
\* returns out, or raises.
InvokeNext(client_address, run) ==
    /\ pc = "handlers"
    /\ LET r == GenNext(gen, _map, _default_handler)
           timed_msg == packet[idx]
       IN  /\ gen' = r.gen
           /\ IF r.gen.state = "finished"
              THEN /\ idx' = idx + 1
                   /\ pc' = "loop"
                   /\ UNCHANGED <<clock, results, calls, exc>>
              ELSE \E out \in Outcomes(r.value.callback) :
                   /\ calls' = Append(calls,
                        [hid |-> r.value.id,
                         callback |-> r.value.callback,
                         args |-> invoke(r.value, client_address, timed_msg.message),
                         doc |-> timed_msg.doc,
                         early |-> clock < timed_msg.time,
                         slept |-> Len(waits)])
                   /\ clock' = clock + run
                   /\ results' = IF out = "reply" THEN Append(results, ReplyAddr)
                                 ELSE results
                   /\ pc' = IF out = "raise" THEN "raised" ELSE "handlers"
                   /\ exc' = IF out = "raise" THEN "CallbackError" ELSE exc
                   /\ UNCHANGED idx
    /\ UNCHANGED <<packet, waits, content, pktNow>>
    /\ UNCHANGED <<tableVars, data, builderVars, transportVars>>

(***************************************************************************)
(* Spec: a dispatcher is configured by map, unmap and set_default_handler  *)
(* calls and then receives a packet that holds one message.                *)
(***************************************************************************)
RegAddresses == {AddrA, AddrStar}
QueryAddresses == {AddrA, AddrB, AddrStar, AddrQ}
HandlerKinds ==
    { Handler(0, "cb1", <<>>, FALSE), Handler(0, "cb2", <<>>, FALSE),
      Handler(0, "cb1", <<7>>, FALSE), Handler(0, "cb1", <<>>, TRUE),
      Handler(0, "cb2", <<7>>, TRUE) }
Returned == { mapLog[i].handler : i \in 1 .. Len(mapLog) }
ParamsOf(address) == IF address = AddrA THEN <<5, 6>> ELSE <<>>

Init ==
    /\ _map = <<>>
    /\ _default_handler = NoHandler
    /\ nextId = 1
    /\ opCount = 0
    /\ apiExc = "none"
    /\ mapLog = <<>>
    /\ lastApi = "none"
    /\ clock = 2
    /\ DispatchIdle
    /\ NoTransport
    /\ NoBuilder

Next ==
    \/ \E a \in RegAddresses, h \in HandlerKinds :
          map(a, h.callback, h.args, h.needs_reply_address)
    \/ \E a \in RegAddresses, h \in Returned : unmap(a, h, TRUE)
    \/ \E a \in RegAddresses, h \in HandlerKinds : unmap(a, h, FALSE)
    \/ \E cb \in {"cb1", "None"}, nra \in BOOLEAN : set_default_handler(cb, nra)
    \/ \E q \in QueryAddresses : ReceiveParsed(Message(q, ParamsOf(q)))
    \/ NextMessage(0)
    \/ InvokeNext(ClientAddress, 0)

Spec == Init /\ [][Next]_vars

(***************************************************************************)
(* Properties of the dispatcher table.                                     *)
(***************************************************************************)
\* Only map calls were made so far.
OnlyMaps == Len(mapLog) = opCount

Ids(handlers) == [i \in 1 .. Len(handlers) |-> handlers[i].id]

CallIds == [i \in 1 .. Len(calls) |-> calls[i].hid]

IsPrefix(s, t) == Len(s) <= Len(t) /\ s = SubSeq(t, 1, Len(s))

\* The handlers mapped at an address that matches q, as map was called.
MapOrder(q) ==
    LET hit == SelectSeq(mapLog, LAMBDA e : AddrMatches(e.addr, q))
    IN  [i \in 1 .. Len(hit) |-> hit[i].handler.id]

RECURSIVE FirstAddrs(_)
\* The addresses map was called with, each once, in the order of their
\* first map call.
FirstAddrs(log) ==
    IF log = <<>> THEN <<>>
    ELSE LET init == FirstAddrs(SubSeq(log, 1, Len(log) - 1))
             a == log[Len(log)].addr
         IN  IF \E i \in 1 .. Len(init) : init[i] = a THEN init ELSE Append(init, a)

RECURSIVE GroupedFrom(_, _, _)
GroupedFrom(addrs, i, q) ==
    IF i > Len(addrs) THEN <<>>
    ELSE LET mine == SelectSeq(mapLog, LAMBDA e : e.addr = addrs[i])
         IN  (IF AddrMatches(addrs[i], q)
              THEN [j \in 1 .. Len(mine) |-> mine[j].handler.id] ELSE <<>>)
             \o GroupedFrom(addrs, i + 1, q)

\* The handlers mapped at an address that matches q, address by address:
\* the addresses in the order of their first map call, the handlers of
\* one address as map was called.
GroupedOrder(q) == GroupedFrom(FirstAddrs(mapLog), 1, q)

Yielded(q) == Ids(handlers_for_address(_map, _default_handler, q))

MappedMatch(q) ==
    \E i \in 1 .. Len(_map) :
        _map[i].handlers # <<>> /\ AddrMatches(_map[i].addr, q)

\* C5: handlers_for_address(q) yields exactly the default handler when
\* one is installed and no mapped handler's address matches q, never the
\* default handler when a mapped handler matches q, and nothing for an
\* unmatched q when no default handler is installed.
C5_DefaultHandler ==
    \A q \in QueryAddresses :
        LET hs == handlers_for_address(_map, _default_handler, q)
        IN  /\ (_default_handler # NoHandler /\ ~MappedMatch(q)) =>
                  hs = <<_default_handler>>
            /\ MappedMatch(q) =>
                  \A i \in 1 .. Len(hs) : hs[i].id # _default_handler.id
            /\ (_default_handler = NoHandler /\ ~MappedMatch(q)) => hs = <<>>

\* The list mapped at an address, empty when the address is no key.
HandlersAt(m, address) ==
    IF HasKey(m, address) THEN m[KeyIndex(m, address)].handlers ELSE <<>>

SameTriple(x, y) ==
    /\ x.callback = y.callback
    /\ x.args = y.args
    /\ x.needs_reply_address = y.needs_reply_address

\* new is old without its item number k.
Without(old, k, new) ==
    /\ Len(new) = Len(old) - 1
    /\ \A j \in 1 .. Len(new) : new[j] = IF j < k THEN old[j] ELSE old[j + 1]

UnmapPost(a, h) ==
    LET old == HandlersAt(_map, a)
        new == HandlersAt(_map', a)
        eq == {i \in 1 .. Len(old) : SameTriple(old[i], h)}
    IN  /\ eq # {} =>
              /\ apiExc' = "none"
              /\ \E k \in eq : (\A j \in eq : k <= j) /\ Without(old, k, new)
        /\ eq = {} => apiExc' = "ValueError" /\ new = old
        /\ \A b \in RegAddresses \ {a} : HandlersAt(_map', b) = HandlersAt(_map, b)
        /\ _default_handler' = _default_handler

\* C6: unmap(address, h) removes the first handler of the address's list
\* that equals h by (callback, fixed args, needs_reply_address), whether
\* h is the Handler map returned or is rebuilt; every other handler of
\* every address keeps its place; when no equal handler is mapped at the
\* address, ValueError is raised and no handler is removed.
C6_Unmap ==
    [][ /\ \A a \in RegAddresses, h \in Returned : unmap(a, h, TRUE) => UnmapPost(a, h)
        /\ \A a \in RegAddresses, h \in HandlerKinds :
              unmap(a, h, FALSE) => UnmapPost(a, h) ]_vars

\* unmap has removed the first of two equal handlers of one address: the
\* one that was mapped second is what is left.
C6_Witness ==
    /\ lastApi = "unmap" /\ apiExc = "none"
    /\ Len(mapLog) = 2
    /\ mapLog[1].addr = mapLog[2].addr
    /\ SameTriple(mapLog[1].handler, mapLog[2].handler)
    /\ HandlersAt(_map, mapLog[1].addr) = <<mapLog[2].handler>>

\* The handler object with the given id.
HandlerOfId(id) ==
    IF _default_handler.id = id THEN _default_handler
    ELSE LET k == CHOOSE k \in 1 .. Len(_map) :
                     \E i \in 1 .. Len(_map[k].handlers) : _map[k].handlers[i].id = id
             i == CHOOSE i \in 1 .. Len(_map[k].handlers) : _map[k].handlers[i].id = id
         IN  _map[k].handlers[i]

\* The message a call was made for.
MessageOfDoc(doc) ==
    LET k == CHOOSE k \in 1 .. Len(packet) : packet[k].doc = doc
    IN  packet[k].message

TimeTags == 0 .. MaxTime

PacketMessages == {Message(AddrA, <<5>>), Message(AddrB, <<>>)}

RECURSIVE ContentsOfSize(_)
RECURSIVE ElementsOfSize(_)
\* The elements made of n messages and bundles in all.
ElementsOfSize(n) ==
    IF n = 1
    THEN PacketMessages \cup {Bundle(t, <<>>) : t \in TimeTags}
    ELSE {Bundle(t, c) : t \in TimeTags, c \in ContentsOfSize(n - 1)}

\* The lists of elements made of n messages and bundles in all.
ContentsOfSize(n) ==
    IF n = 0 THEN {<<>>}
    ELSE UNION { {<<e>> \o rest : e \in ElementsOfSize(k), rest \in ContentsOfSize(n - k)}
                 : k \in 1 .. n }

PacketContents ==
    PacketMessages
    \cup {Bundle(t, c) : t \in TimeTags, c \in UNION {ContentsOfSize(n) : n \in 0 .. MaxNodes}}

\* The dict after map("/a", cb1), map("/a", cb2), map("/b", cb3, 7,
\* needs_reply_address=True), map("/b", cb1).
PacketTable ==
    MapAppend(MapAppend(MapAppend(MapAppend(<<>>,
        AddrA, Handler(1, "cb1", <<>>, FALSE)),
        AddrA, Handler(2, "cb2", <<>>, FALSE)),
        AddrB, Handler(3, "cb3", <<7>>, TRUE)),
        AddrB, Handler(4, "cb1", <<>>, FALSE))

InitPacket ==
    /\ _map = PacketTable
    /\ _default_handler = NoHandler
    /\ nextId = 5
    /\ opCount = 4
    /\ apiExc = "none"
    /\ mapLog = <<>>
    /\ lastApi = "map"
    /\ clock = 2
    /\ DispatchIdle
    /\ NoTransport
    /\ NoBuilder

NextPacket ==
    \/ pc = "idle" /\ \E c \in PacketContents : ReceiveParsed(c)
    \/ \E late \in 0 .. MaxLate : NextMessage(late)
    \/ \E run \in 0 .. MaxRun : InvokeNext(ClientAddress, run)

SpecPacket == InitPacket /\ [][NextPacket]_vars

(***************************************************************************)
(* Properties of the dispatch of a packet.  The messages of the packet     *)
(* are named by their paths in content: the path of an element is the      *)
(* list of the positions that lead to it, and the document order is the    *)
(* order of the paths.                                                     *)
(***************************************************************************)
RECURSIVE PathsIn(_)
\* The paths of the messages in node.
PathsIn(node) ==
    IF node.kind = "message" THEN {<<>>}
    ELSE UNION { {<<i>> \o p : p \in PathsIn(node.contents[i])}
                 : i \in 1 .. Len(node.contents) }

RECURSIVE NodeAt(_, _)
NodeAt(node, p) == IF p = <<>> THEN node ELSE NodeAt(node.contents[p[1]], Tail(p))

MsgPaths == PathsIn(content)

\* p comes before q in the document.
PathLess(p, q) ==
    \E i \in 1 .. Len(p) :
        /\ i <= Len(q)
        /\ p[i] < q[i]
        /\ \A j \in 1 .. i - 1 : p[j] = q[j]

DocIndex(p) == 1 + Cardinality({q \in MsgPaths : PathLess(q, p)})

PathOfDoc(doc) == CHOOSE p \in MsgPaths : DocIndex(p) = doc

\* The time tag of the bundle that directly holds the message at p.
TagOf(p) == NodeAt(content, SubSeq(p, 1, Len(p) - 1)).timestamp

\* The effective time of the message at p.
EffTime(p) ==
    IF p = <<>> THEN pktNow
    ELSE IF TagOf(p) = IMMEDIATELY \/ TagOf(p) < pktNow THEN pktNow
    ELSE TagOf(p)

\* The message at p is to be handled at once.
AtOnce(p) == p # <<>> /\ (TagOf(p) = IMMEDIATELY \/ TagOf(p) < pktNow)

\* C1: the handlers are invoked message after message, in ascending order
\* of the messages' effective times and, for equal effective times, in
\* document order; when the call returns every message was dispatched.
C1_DispatchOrder ==
    pc # "idle" =>
        /\ \A i, j \in 1 .. Len(calls) :
              i < j =>
                 LET p == PathOfDoc(calls[i].doc)
                     q == PathOfDoc(calls[j].doc)
                 IN  \/ EffTime(p) < EffTime(q)
                     \/ EffTime(p) = EffTime(q) /\ (p = q \/ PathLess(p, q))
        /\ pc = "returned" =>
              \A p \in MsgPaths : \E i \in 1 .. Len(calls) : calls[i].doc = DocIndex(p)

\* The call returned after a message was dispatched before one that
\* precedes it in the document and has a later effective time.
C1_Witness ==
    /\ pc = "returned"
    /\ \E i, j \in 1 .. Len(calls) :
          /\ i < j
          /\ calls[i].doc > calls[j].doc
          /\ EffTime(PathOfDoc(calls[i].doc)) < EffTime(PathOfDoc(calls[j].doc))

\* C2: no handler is invoked before the effective time of its message;
\* a sleep lasts the difference between the effective time and the
\* current time; the handlers of a message whose bundle is tagged
\* IMMEDIATELY or in the past are invoked before the dispatcher has slept
\* at all, and the handlers of a message for later are invoked without a
\* sleep only when the earlier callbacks ran that long.
C2_NotBeforeTime ==
    pc # "idle" =>
        /\ \A c \in 1 .. Len(calls) : ~calls[c].early
        /\ \A w \in 1 .. Len(waits) :
              /\ waits[w].secs > 0
              /\ waits[w].secs = EffTime(PathOfDoc(waits[w].doc)) - waits[w].now
              /\ ~AtOnce(PathOfDoc(waits[w].doc))
        /\ \A c \in 1 .. Len(calls) :
              AtOnce(PathOfDoc(calls[c].doc)) => calls[c].slept = 0
        /\ \A c \in 1 .. Len(calls) :
              (calls[c].slept = 0 /\ ~AtOnce(PathOfDoc(calls[c].doc))) =>
                 EffTime(PathOfDoc(calls[c].doc)) <= pktNow + MaxRun * (c - 1)

\* The outer bundle is for later and holds a message and a bundle tagged
\* IMMEDIATELY: the inner message was handled before any sleep, the outer
\* one after the sleep.
C2_Witness ==
    /\ pc = "returned"
    /\ content.kind = "bundle" /\ content.timestamp > pktNow
    /\ \E c, d \in 1 .. Len(calls) :
          /\ Len(PathOfDoc(calls[c].doc)) = 2
          /\ TagOf(PathOfDoc(calls[c].doc)) = IMMEDIATELY
          /\ calls[c].slept = 0
          /\ Len(PathOfDoc(calls[d].doc)) = 1
          /\ calls[d].slept = 1
          /\ waits[1].doc = calls[d].doc

\* C3: OscPacket lists every message of the packet once, with the time
\* tag of its directly enclosing bundle as effective time, or now when
\* that tag is IMMEDIATELY or earlier than now; a packet that is a single
\* message gets now.
C3_EffectiveTime ==
    pc # "idle" =>
        /\ Len(packet) = Cardinality(MsgPaths)
        /\ \A p \in MsgPaths :
              \E k \in 1 .. Len(packet) :
                 /\ packet[k].doc = DocIndex(p)
                 /\ packet[k].message = NodeAt(content, p)
                 /\ packet[k].time = EffTime(p)

\* A message two bundles deep whose own bundle is for later, inside
\* bundles tagged IMMEDIATELY and in the past, beside a message that gets
\* now.
C3_Witness ==
    /\ pc # "idle"
    /\ \E p \in MsgPaths :
          /\ Len(p) = 3
          /\ TagOf(p) > pktNow
          /\ content.timestamp = IMMEDIATELY
          /\ NodeAt(content, <<p[1]>>).timestamp \in 1 .. pktNow - 1
          /\ \E k \in 1 .. Len(packet) : packet[k].time = TagOf(p)

\* C7: a handler that raises does not make call_handlers_for_packet
\* raise, and when the call returns every handler of every message of the
\* packet was invoked.
C7_HandlerErrorCaught ==
    /\ pc # "raised"
    /\ pc = "returned" =>
          \A p \in MsgPaths :
             LET hs == handlers_for_address(_map, _default_handler,
                                            NodeAt(content, p).address)
             IN  \A i \in 1 .. Len(hs) :
                    \E c \in 1 .. Len(calls) :
                       calls[c].doc = DocIndex(p) /\ calls[c].hid = hs[i].id

(***************************************************************************)
(* SpecBytes: the dispatcher of SpecPacket is given datagrams: datagrams   *)
(* the builders make, the beginnings of these, these with one byte set to  *)
(* 255, and datagrams written by hand.                                     *)
(***************************************************************************)
IntVal(n) == Value("int", n)
StrVal(s) == Value("str", s)
ListVal(items) == Value("list", items)

DgramA == build(AddrA, add_arg(<<>>, IntVal(5), NoType)).dgram
DgramB == build(AddrB, add_arg(<<>>, StrVal(<<"a", "b">>), NoType)).dgram
DgramList == build(AddrA, add_arg(<<>>, ListVal(<<IntVal(1)>>), NoType)).dgram

\* The time tag of the bundles that are for later.
LaterTag == 3

BuiltDgrams ==
    { DgramA, DgramB, DgramList,
      build_bundle(IMMEDIATELY, <<DgramA, DgramB>>),
      build_bundle(LaterTag, <<DgramB>>),
      build_bundle(LaterTag, <<build_bundle(IMMEDIATELY, <<DgramA>>), DgramB>>) }

HandDgrams ==
    { \* a closing bracket that closes nothing, a bracket never closed
      write_string(AddrA) \o write_string(<<",", "]">>),
      write_string(AddrA) \o write_string(<<",", "[">>),
      \* neither "/" nor "#bundle" at the start
      write_string(<<",", "i">>) \o write_int(5),
      \* a bundle with an element of size -4, and one of size 0
      _BUNDLE_PREFIX \o ntp_IMMEDIATELY \o write_int(-4),
      _BUNDLE_PREFIX \o ntp_IMMEDIATELY \o write_int(0) \o write_int(Len(DgramA)) \o DgramA }

Beginnings(dgram) == {SubSeq(dgram, 1, n) : n \in 0 .. Len(dgram)}
WithBadByte(dgram) == {[dgram EXCEPT ![i] = 255] : i \in 1 .. Len(dgram)}

Datagrams ==
    HandDgrams \cup UNION {Beginnings(d) \cup WithBadByte(d) : d \in BuiltDgrams}

InitBytes == InitPacket

NextBytes ==
    \/ pc = "idle" /\ \E d \in Datagrams : ReceiveData(d)
    \/ NextMessage(0)
    \/ InvokeNext(ClientAddress, 0)

SpecBytes == InitBytes /\ [][NextBytes]_vars

\* C8: when the datagram cannot be parsed, call_handlers_for_packet
\* returns, no handler was invoked and the list of replies is empty.
C8_UnparseableDropped ==
    (pc # "idle" /\ OscPacket(data).err # "none") =>
        (pc = "returned" /\ calls = <<>> /\ results = <<>>)

(***************************************************************************)
(* SpecBuild: a builder is given an address and up to MaxArgs values, and  *)
(* build is called.                                                        *)
(***************************************************************************)
AddArg(arg_value, arg_type) ==
    /\ buildState = "open"
    /\ Len(added) < MaxArgs
    /\ builder_args' = add_arg(builder_args, arg_value, arg_type)
    /\ added' = Append(added, arg_value)
    /\ UNCHANGED <<builder_address, msg, buildState>>
    /\ UNCHANGED <<tableVars, dispVars, data, transportVars>>

Build ==
    /\ buildState = "open"
    /\ msg' = build(builder_address, builder_args)
    /\ buildState' = "built"
    /\ UNCHANGED <<builder_address, builder_args, added>>
    /\ UNCHANGED <<tableVars, dispVars, data, transportVars>>

BuildAddresses == {AddrA, <<"/", "U+233">>, <<"/", "a", "U+0", "b">>}

\* The values added with the type left to the builder.
PlainValues ==
    { IntVal(0), IntVal(5), IntVal(-1), IntVal(2147483647),
      StrVal(<<>>), StrVal(<<"a", "b">>), StrVal(<<"a", "b", "a", "b">>), StrVal(<<"U+233">>),
      StrVal(<<"a", "U+0", "b">>),
      Value("bytes", <<1>>), Value("bytes", <<0, 255, 0, 1>>),
      Value("bool", TRUE), Value("bool", FALSE), None,
      Value("tuple", <<1, 144, 60, 127>>), Value("tuple", <<256, 1, 2, 3>>),
      ListVal(<<>>), ListVal(<<IntVal(1), StrVal(<<"a">>)>>), ListVal(<<ListVal(<<IntVal(1)>>), None>>) }

\* The values added as RGBA.
RgbaValues == { Value("uint32", <<65535, 65280>>), Value("uint32", <<0, 1>>) }

InitBuild ==
    /\ _map = <<>>
    /\ _default_handler = NoHandler
    /\ nextId = 1 /\ opCount = 0 /\ apiExc = "none" /\ mapLog = <<>> /\ lastApi = "none"
    /\ clock = 2
    /\ DispatchIdle
    /\ NoTransport
    /\ builder_address \in BuildAddresses
    /\ builder_args = <<>> /\ added = <<>>
    /\ msg = [err |-> "none", content |-> Message(<<>>, <<>>), dgram |-> <<>>]
    /\ buildState = "open"

NextBuild ==
    \/ \E v \in PlainValues : AddArg(v, NoType)
    \/ \E v \in RgbaValues : AddArg(v, ArgType("r", <<>>))
    \/ Build

SpecBuild == InitBuild /\ [][NextBuild]_vars

\* C9: the message build gives has the address of the builder and the
\* values added as arguments, equal one by one and nested as they were.
C9_RoundTrip ==
    (buildState = "built" /\ msg.err = "none") =>
        /\ msg.content.address = builder_address
        /\ msg.content.params = added

(***************************************************************************)
(* pythonosc/slip.py.  encode, decode and is_valid of slip.py are          *)
(* slip_encode, slip_decode and slip_is_valid here.                        *)
(***************************************************************************)
END == 192
ESC == 219
ESC_END == 220
ESC_ESC == 221
END_END == <<END, END>>

\* The longest message given to slip.encode.
MaxSlipLen == 3

RECURSIVE replace(_, _, _)
\* bytes.replace(old, new), old not empty: the occurrences of old from
\* left to right, none overlapping another.
replace(s, old, new) ==
    IF Len(s) < Len(old) THEN s
    ELSE IF SubSeq(s, 1, Len(old)) = old
    THEN new \o replace(SubSeq(s, Len(old) + 1, Len(s)), old, new)
    ELSE <<Head(s)>> \o replace(Tail(s), old, new)

RECURSIVE lstrip(_, _)
lstrip(s, c) == IF s # <<>> /\ Head(s) = c THEN lstrip(Tail(s), c) ELSE s

RECURSIVE rstrip(_, _)
rstrip(s, c) ==
    IF s # <<>> /\ s[Len(s)] = c THEN rstrip(SubSeq(s, 1, Len(s) - 1), c) ELSE s

\* bytes.strip(c) for a single byte c.
strip(s, c) == rstrip(lstrip(s, c), c)

RECURSIVE SplitFrom(_, _, _)
\* bytes.split(sep) of the rest s of the bytes, piece being what was read
\* since the last separator.
SplitFrom(s, sep, piece) ==
    IF Len(s) < Len(sep) THEN <<piece \o s>>
    ELSE IF SubSeq(s, 1, Len(sep)) = sep
    THEN <<piece>> \o SplitFrom(SubSeq(s, Len(sep) + 1, Len(s)), sep, <<>>)
    ELSE SplitFrom(Tail(s), sep, Append(piece, Head(s)))

split(s, sep) == SplitFrom(s, sep, <<>>)

\* An encode that escapes END before it escapes ESC.
slip_encodeEndFirst(slipmsg) ==
    <<END>> \o replace(replace(slipmsg, <<END>>, <<ESC, ESC_END>>), <<ESC>>, <<ESC, ESC_ESC>>)
    \o <<END>>

\* slip.encode
slip_encode(slipmsg) ==
    <<END>> \o replace(replace(slipmsg, <<ESC>>, <<ESC, ESC_ESC>>), <<END>>, <<ESC, ESC_END>>)
    \o <<END>>

\* The test of is_valid on the stripped packet: the re.search is an ESC
\* followed by a byte that is neither ESC_END nor ESC_ESC.
StrippedValid(stripped) ==
    ~ \/ \E i \in 1 .. Len(stripped) : stripped[i] = END
      \/ (stripped # <<>> /\ stripped[Len(stripped)] = ESC)
      \/ \E i \in 1 .. Len(stripped) - 1 :
            stripped[i] = ESC /\ stripped[i + 1] \notin {ESC_END, ESC_ESC}

\* is_valid without "packet = packet.strip(END)".
slip_is_validUnstripped(slippacket) == StrippedValid(slippacket)

\* slip.is_valid
slip_is_valid(slippacket) == StrippedValid(strip(slippacket, END))

\* slip.decode: [err, val].
slip_decode(slippacket) ==
    IF ~slip_is_valid(slippacket) THEN Raise("ProtocolError")
    ELSE Return(replace(replace(strip(slippacket, END), <<ESC, ESC_END>>, <<END>>),
                        <<ESC, ESC_ESC>>, <<ESC>>), 0)

(***************************************************************************)
(* SpecSlip: a message of up to MaxSlipLen bytes, each a special byte of   *)
(* SLIP or an ordinary one, is encoded; the packet is then decoded and     *)
(* validated.                                                              *)
(***************************************************************************)
SlipBytes == {END, ESC, ESC_END, ESC_ESC, 1}

SlipMessages == UNION {[1 .. n -> SlipBytes] : n \in 0 .. MaxSlipLen}

SlipEncode ==
    /\ slipState = "new"
    /\ slip_packet' = slip_encode(slip_msg)
    /\ slipState' = "encoded"
    /\ UNCHANGED <<slip_msg, slip_decoded, slip_valid>>
    /\ UNCHANGED <<tableVars, dispVars, data, builderVars, matchVars, srvVars, taskVars>>

SlipDecode ==
    /\ slipState = "encoded"
    /\ slip_decoded' = slip_decode(slip_packet)
    /\ slipState' = "decoded"
    /\ UNCHANGED <<slip_msg, slip_packet, slip_valid>>
    /\ UNCHANGED <<tableVars, dispVars, data, builderVars, matchVars, srvVars, taskVars>>

SlipIsValid ==
    /\ slipState # "new" /\ slip_valid = "unknown"
    /\ slip_valid' = IF slip_is_valid(slip_packet) THEN "yes" ELSE "no"
    /\ UNCHANGED <<slip_msg, slip_packet, slip_decoded, slipState>>
    /\ UNCHANGED <<tableVars, dispVars, data, builderVars, matchVars, srvVars, taskVars>>

\* A dispatcher nothing is mapped in, that has received nothing.
NoDispatcher ==
    /\ _map = <<>> /\ _default_handler = NoHandler
    /\ nextId = 1 /\ opCount = 0 /\ apiExc = "none" /\ mapLog = <<>> /\ lastApi = "none"
    /\ clock = 2
    /\ DispatchIdle

InitSlip ==
    /\ NoDispatcher /\ NoBuilder /\ NoMatch /\ NoServer /\ NoTasks
    /\ slip_msg \in SlipMessages
    /\ slip_packet = <<>>
    /\ slip_decoded = Return(<<>>, 0)
    /\ slip_valid = "unknown"
    /\ slipState = "new"

NextSlip ==
    \/ SlipEncode
    \/ SlipDecode
    \/ SlipIsValid

SpecSlip == InitSlip /\ [][NextSlip]_vars

\* C18: the packet slip.encode makes of a message is valid for
\* slip.is_valid, and slip.decode makes the message of it again.
C18_SlipRoundTrip ==
    /\ slip_valid \in {"unknown", "yes"}
    /\ slipState = "decoded" =>
          (slip_decoded.err = "none" /\ slip_decoded.val = slip_msg)

\* A message with an ESC followed by an ESC_END and with an END has been
\* encoded, decoded and validated.
C18_Witness ==
    /\ slipState = "decoded" /\ slip_valid = "yes"
    /\ \E i \in 1 .. Len(slip_msg) - 1 : slip_msg[i] = ESC /\ slip_msg[i + 1] = ESC_END
    /\ \E i \in 1 .. Len(slip_msg) : slip_msg[i] = END
    /\ slip_decoded.val = slip_msg

(***************************************************************************)
(* SpecMatch: one dispatcher maps a handler at the address registered and  *)
(* one at the address queried; handlers_for_address is asked for each of   *)
(* the two addresses.                                                       *)
(***************************************************************************)
\* The characters of an address after its leading "/".
MaxAddrLen == 3

MatchChars == {"/", "a", "*", "?"}

\* The addresses of the lookups.  None holds "??": re.compile rejects a
\* third quantifier in a row ("multiple repeat"), which a registered
\* address with "*??" or "???*" gives.
MatchAddresses ==
    { s \in { <<"/">> \o t : t \in UNION {[1 .. n -> MatchChars] : n \in 0 .. MaxAddrLen} } :
        \A i \in 1 .. Len(s) - 1 : ~(s[i] = "?" /\ s[i + 1] = "?") }

MatchTable(p, a) ==
    MapAppend(MapAppend(<<>>, p, Handler(1, "cb1", <<>>, FALSE)),
              a, Handler(2, "cb1", <<7>>, FALSE))

\* Is a handler of identity id among those yielded.
YieldsId(handlers, id) ==
    IF \E i \in 1 .. Len(handlers) : handlers[i].id = id THEN "yes" ELSE "no"

\* list(dispatcher.handlers_for_address(queried))
LookupForward ==
    /\ fwd = "unknown"
    /\ fwd' = YieldsId(handlers_for_address(_map, _default_handler, queried), 1)
    /\ UNCHANGED <<registered, queried, back>>
    /\ UNCHANGED <<tableVars, dispVars, data, builderVars, slipVars, srvVars, taskVars>>

\* list(dispatcher.handlers_for_address(registered))
LookupBackward ==
    /\ back = "unknown"
    /\ back' = YieldsId(handlers_for_address(_map, _default_handler, registered), 2)
    /\ UNCHANGED <<registered, queried, fwd>>
    /\ UNCHANGED <<tableVars, dispVars, data, builderVars, slipVars, srvVars, taskVars>>

InitMatch ==
    /\ registered \in MatchAddresses
    /\ queried \in MatchAddresses
    /\ fwd = "unknown" /\ back = "unknown"
    /\ _map = MatchTable(registered, queried)
    /\ _default_handler = NoHandler
    /\ nextId = 3 /\ opCount = 2 /\ apiExc = "none" /\ mapLog = <<>> /\ lastApi = "map"
    /\ clock = 2
    /\ DispatchIdle
    /\ NoBuilder /\ NoSlip /\ NoServer /\ NoTasks

NextMatch ==
    \/ LookupForward
    \/ LookupBackward

SpecMatch == InitMatch /\ [][NextMatch]_vars

\* An address without wildcard.
Literal(s) == \A i \in 1 .. Len(s) : s[i] \notin {"*", "?"}

\* The "/" separators of an address.
Slashes(s) == Cardinality({i \in 1 .. Len(s) : s[i] = "/"})

\* C19: no wildcard matches a "/": an address with wildcards and an
\* address without that match have their "/" one for one, whichever of
\* the two is registered; and "/*" on either side matches an address
\* without wildcards exactly when its leading "/" is its only "/".
C19_NoSlashMatched ==
    /\ (fwd = "yes" /\ (Literal(queried) \/ Literal(registered))) =>
          Slashes(registered) = Slashes(queried)
    /\ (fwd # "unknown" /\ registered = AddrStar /\ Literal(queried)) =>
          (fwd = "yes" <=> Slashes(queried) = 1)
    /\ (fwd # "unknown" /\ queried = AddrStar /\ Literal(registered)) =>
          (fwd = "yes" <=> Slashes(registered) = 1)

\* C20: the handler mapped at registered is yielded for the query queried
\* exactly when the handler mapped at queried is yielded for the query
\* registered.
C20_Symmetric ==
    (fwd # "unknown" /\ back # "unknown") => fwd = back

(***************************************************************************)
(* pythonosc/osc_server.py and pythonosc/osc_tcp_server.py.  The three     *)
(* _call_handlers_for_packet of the servers call handler.callback          *)
(* themselves.  What a connection does is written to the log wire as       *)
(* events [ev, data, handler, args, ret]: "dispatch" is a call of          *)
(* _call_handlers_for_packet with data, "call" a call of the callback of   *)
(* handler with the positional arguments args that returned ret, "write"   *)
(* a sendall or write of data.                                             *)
(***************************************************************************)
MODE_1_0 == "1.0"
MODE_1_1 == "1.1"

Event(ev, bytes, handler, args, ret) ==
    [ev |-> ev, data |-> bytes, handler |-> handler, args |-> args, ret |-> ret]

\* What the callbacks return: cb0 the integer 0, cb2 an address, cb4 a
\* list of an address and an argument, cb5 a tuple of an address and an
\* argument, every other callback None.
ReturnOf(callback) ==
    CASE callback = "cb0" -> IntVal(0)
      [] callback = "cb2" -> StrVal(ReplyAddr)
      [] callback = "cb4" -> ListVal(<<StrVal(ReplyAddr), IntVal(5)>>)
      [] callback = "cb5" -> Value("tuple", <<StrVal(ReplyAddr), IntVal(5)>>)
      [] OTHER -> None

\* bool(value) of Python.
Truthy(value) ==
    CASE value.kind = "None" -> FALSE
      [] value.kind \in {"str", "list", "bytes", "tuple"} -> value.val # <<>>
      [] value.kind = "int" -> value.val # 0
      [] value.kind = "bool" -> value.val
      [] OTHER -> TRUE

\* The arguments of handler.callback(...) in _call_handlers_for_packet.
ServerCallArgs(handler, message) ==
    IF handler.args # <<>>
    THEN <<AddressArg(message.address), FixedArg(handler.args)>> \o OscArgs(message.params)
    ELSE <<AddressArg(message.address)>> \o OscArgs(message.params)

\* "for handler in handlers" of _call_handlers_for_packet.
HandlerCalls(handlers, message) ==
    [i \in 1 .. Len(handlers) |->
        Event("call", <<>>, handlers[i], ServerCallArgs(handlers[i], message),
              ReturnOf(handlers[i].callback))]

RECURSIVE MessageCalls(_, _, _, _)
\* "for timed_msg in packet.messages" from message i on.  A generator is
\* true, so that "if not handlers: continue" never continues; the
\* packets of the connections of the model are messages, whose time is
\* now, so that time.sleep is not called.
MessageCalls(msgs, i, m, default_handler) ==
    IF i > Len(msgs) THEN <<>>
    ELSE HandlerCalls(handlers_for_address(m, default_handler, msgs[i].message.address),
                      msgs[i].message)
         \o MessageCalls(msgs, i + 1, m, default_handler)

\* _call_handlers_for_packet once OscPacket(data) is evaluated: [err,
\* calls].  ParseError is caught, any other exception leaves the function.
PacketCalls(pkt, now, m, default_handler) ==
    IF pkt.err = "none"
    THEN [err |-> "none",
          calls |-> MessageCalls(OscPacketMessages(pkt.content, now), 1, m, default_handler)]
    ELSE IF pkt.err = "ParseError" THEN [err |-> "none", calls |-> <<>>]
    ELSE [err |-> pkt.err, calls |-> <<>>]

_call_handlers_for_packet(bytes, now, m, default_handler) ==
    PacketCalls(OscPacket(bytes), now, m, default_handler)

\* An all_resp that keeps the last response only.
TcpRespLast(callEvents) ==
    LET all == SelectSeq(callEvents, LAMBDA c : Truthy(c.ret))
    IN  IF all = <<>> THEN <<>> ELSE <<all[Len(all)].ret>>

\* all_resp of osc_tcp_server._call_handlers_for_packet: "if resp:
\* all_resp.append(resp)".
TcpResp(callEvents) ==
    LET all == SelectSeq(callEvents, LAMBDA c : Truthy(c.ret))
    IN  [i \in 1 .. Len(all) |-> all[i].ret]

\* results of AsyncOSCTCPServer._call_handlers_for_packet:
\* "results.append(result)".
AsyncResults(callEvents) == [i \in 1 .. Len(callEvents) |-> callEvents[i].ret]

RECURSIVE AddAll(_, _, _)
\* "for val in values: builder.add_arg(val)" of build_msg.
AddAll(args, values, i) ==
    IF i > Len(values) THEN args
    ELSE AddAll(add_arg(args, values[i], NoType), values, i + 1)

\* osc_message_builder.build_msg(address, value) for a list value.
build_msg(address, value) == build(address, AddAll(<<>>, value, 1))

\* "if not isinstance(r, list): r = [r]" and build_msg(r[0], r[1:]):
\* [err, content, dgram].  An r that is neither a list nor a str is the
\* address of the builder, and write_string raises BuildError for a value
\* without encode.
ReplyBuilt(r) ==
    IF r.kind = "list" THEN build_msg(r.val[1].val, Tail(r.val))
    ELSE IF r.kind = "str" THEN build_msg(r.val, <<>>)
    ELSE [err |-> "BuildError", content |-> Message(<<>>, <<>>), dgram |-> <<>>]

ReplyDgram(r) == ReplyBuilt(r).dgram

\* struct.pack("!I", n), n below 2^31.
pack_I(n) == write_int(n)

\* struct.unpack("!I", b): [err, val]; struct.error unless b has 4 bytes.
\* No stream of the model has 2^31 bytes, so that a length is kept below
\* 2^31.
unpack_I(b) ==
    IF Len(b) # 4 THEN Raise("struct.error")
    ELSE Return((b[1] % 128) * 16777216 + b[2] * 65536 + b[3] * 256 + b[4], 0)

\* The bytes written for the reply r in a mode.
Framed(framing, dgram) ==
    IF framing = MODE_1_0 THEN pack_I(Len(dgram)) \o dgram ELSE slip_encode(dgram)

\* served and then rest, unless served ended with an exception.
ThenServed(served, rest) ==
    IF served.err # "none" THEN served
    ELSE [err |-> rest.err, events |-> served.events \o rest.events]

\* One reply of "for r in resp", built being the message made of it.
Written(built, framing) ==
    IF built.err # "none" THEN [err |-> built.err, events |-> <<>>]
    ELSE [err |-> "none",
          events |-> <<Event("write", Framed(framing, built.dgram), NoHandler, <<>>, None)>>]

RECURSIVE WritesFrom(_, _, _)
\* "for r in resp" from reply i on: [err, events].
WritesFrom(rs, i, framing) ==
    IF i > Len(rs) THEN [err |-> "none", events |-> <<>>]
    ELSE ThenServed(Written(ReplyBuilt(rs[i]), framing), WritesFrom(rs, i + 1, framing))

\* "for r in resp" of the handlers.  None is skipped ("if r is not
\* None"); _TCPHandler1_1 has no such test, and no None in resp.
Writes(resp, framing) ==
    WritesFrom(SelectSeq(resp, LAMBDA r : r.kind # "None"), 1, framing)

BlockingModes == {"_TCPHandler1_0", "_TCPHandler1_1"}
AsyncModes == {"handle1_0", "handle_1_1"}
FramingOf(md) == IF md \in {"_TCPHandler1_0", "handle1_0"} THEN MODE_1_0 ELSE MODE_1_1

\* A UDP handler that replies as the blocking TCP handlers do.
RespOfReplying(md, callEvents) ==
    IF md \in AsyncModes THEN AsyncResults(callEvents) ELSE TcpResp(callEvents)

\* The list the handler of mode md iterates to reply.
RespOf(md, callEvents) ==
    IF md \in BlockingModes THEN TcpResp(callEvents)
    ELSE IF md \in AsyncModes THEN AsyncResults(callEvents)
    ELSE <<>>

\* One packet served: the call of _call_handlers_for_packet, c being what
\* it gave, and the replies written: [err, events].
Served(md, bytes, c) ==
    IF c.err # "none"
    THEN [err |-> c.err, events |-> <<Event("dispatch", bytes, NoHandler, <<>>, None)>>]
    ELSE ThenServed([err |-> "none",
                     events |-> <<Event("dispatch", bytes, NoHandler, <<>>, None)>> \o c.calls],
                    Writes(RespOf(md, c.calls), FramingOf(md)))

RECURSIVE Serve(_, _, _, _, _, _)
\* "for p in packets" from packet i on.
Serve(md, packets, i, now, m, default_handler) ==
    IF i > Len(packets) THEN [err |-> "none", events |-> <<>>]
    ELSE ThenServed(Served(md, packets[i],
                           _call_handlers_for_packet(packets[i], now, m, default_handler)),
                    Serve(md, packets, i + 1, now, m, default_handler))

\* The list of decoded and then rest, unless a decode raised.
ThenDecoded(decoded, rest) ==
    IF decoded.err # "none" THEN decoded
    ELSE IF rest.err # "none" THEN rest
    ELSE Return(<<decoded.val>> \o rest.val, 0)

RECURSIVE DecodeAll(_, _)
\* [slip.decode(p) for p in pieces] from piece i on: [err, val].
DecodeAll(pieces, i) ==
    IF i > Len(pieces) THEN Return(<<>>, 0)
    ELSE ThenDecoded(slip_decode(pieces[i]), DecodeAll(pieces, i + 1))

\* packets of recvall and of handle_1_1: [err, val].
SlipPackets(buffer) == DecodeAll(split(buffer, END_END), 1)

(***************************************************************************)
(* The connection handlers.  One step of a handler is the code from the    *)
(* return of a recv or read to the next one.  The peer has sent stream     *)
(* and closed: a read returns a beginning of stream that is not empty, of  *)
(* any length up to what was asked for, and zero bytes once stream is      *)
(* empty.                                                                  *)
(***************************************************************************)
\* request.recv(limit) or reader.read(limit) returning n bytes.
Read(n, limit) ==
    /\ n \in 0 .. Len(stream)
    /\ n <= limit
    /\ n = 0 => stream = <<>>
    /\ stream' = SubSeq(stream, n + 1, Len(stream))
    /\ sawEof' = (sawEof \/ n = 0)
    /\ readAfterEof' = (readAfterEof \/ sawEof)

\* A recvall that returns what the first recv gave.
RecvallOnce(remaining) == FALSE

\* "while count > 0" of _TCPHandler1_0.recvall, after "count -= len(newbuf)".
RecvallMore(remaining) == remaining > 0

\* The handler ends: break, and for the async server the rest of handle.
Ended ==
    /\ hpc' = "returned"
    /\ writer' = IF mode \in AsyncModes THEN "closed" ELSE writer
    /\ UNCHANGED <<buf, count, wire, hexc>>

\* An exception leaves the handler.
Raised(e) ==
    /\ hpc' = "raised"
    /\ hexc' = e
    /\ UNCHANGED <<buf, count, wire, writer>>

\* The handler goes on reading, into newbuf and for remaining bytes.
Reading(where, newbuf, remaining) ==
    /\ hpc' = where
    /\ buf' = newbuf
    /\ count' = remaining
    /\ UNCHANGED <<wire, hexc, writer>>

\* The packets of one round are served, served being [err, events]; the
\* handler then reads from where again.
Dispatched(served, where, remaining) ==
    /\ wire' = wire \o served.events
    /\ IF served.err # "none"
       THEN hpc' = "raised" /\ hexc' = served.err /\ UNCHANGED <<buf, count>>
       ELSE hpc' = where /\ buf' = <<>> /\ count' = remaining /\ UNCHANGED hexc
    /\ UNCHANGED writer

\* data is read whole in OSC 1.0.
PacketRead(bytes) ==
    Dispatched(Serve(mode, <<bytes>>, 1, clock, _map, _default_handler), "length", 4)

\* The length is read in OSC 1.0: length is [err, val].
LengthRead(length) ==
    IF length.err # "none" THEN Raised(length.err)
    ELSE IF length.val > 0 THEN Reading("payload", <<>>, length.val)
    ELSE PacketRead(<<>>)

\* buf is split and decoded in OSC 1.1: packets is [err, val].
FramesRead(packets) ==
    IF packets.err # "none" THEN Raised(packets.err)
    ELSE Dispatched(Serve(mode, packets.val, 1, clock, _map, _default_handler), "first", 0)

\* What a step leaves alone.
ServerFrame ==
    /\ UNCHANGED <<mode, peerPackets, peerWhole>>
    /\ UNCHANGED <<tableVars, dispVars, data, builderVars, matchVars, slipVars, taskVars>>

\* _TCPHandler1_0.handle with recvall, from one recv to the next.
TCPHandler1_0_handle(n) ==
    /\ mode = "_TCPHandler1_0" /\ hpc \in {"length", "payload"}
    /\ Read(n, count)
    /\ IF n = 0 THEN Ended
       ELSE IF RecvallMore(count - n)
       THEN Reading(hpc, buf \o SubSeq(stream, 1, n), count - n)
       ELSE IF hpc = "length" THEN LengthRead(unpack_I(buf \o SubSeq(stream, 1, n)))
       ELSE PacketRead(buf \o SubSeq(stream, 1, n))
    /\ splits' = IF 0 < n /\ n < count THEN splits \cup {hpc} ELSE splits
    /\ ServerFrame

\* _TCPHandler1_1.handle with recvall, from one recv to the next: recv
\* is asked for 4096 bytes, more than a stream of the model has.
TCPHandler1_1_handle(n) ==
    /\ mode = "_TCPHandler1_1" /\ hpc \in {"first", "more"}
    /\ Read(n, Len(stream))
    /\ IF n = 0 /\ hpc = "first" THEN Ended
       ELSE IF n = 0 THEN FramesRead(SlipPackets(buf))
       ELSE IF stream[n] = END THEN FramesRead(SlipPackets(buf \o SubSeq(stream, 1, n)))
       ELSE Reading("more", buf \o SubSeq(stream, 1, n), 0)
    /\ UNCHANGED splits
    /\ ServerFrame

\* AsyncOSCTCPServer.handle in mode 1.0: handle1_0 from one read to the
\* next, and the end of handle.
handle1_0(n) ==
    /\ mode = "handle1_0" /\ hpc \in {"length", "payload"}
    /\ Read(n, count)
    /\ IF hpc = "length"
       THEN IF n = 0 THEN Ended
            ELSE LengthRead(unpack_I(SubSeq(stream, 1, n)))
       ELSE IF n = 0 THEN PacketRead(buf)
            ELSE IF count - n > 0 THEN Reading(hpc, buf \o SubSeq(stream, 1, n), count - n)
            ELSE PacketRead(buf \o SubSeq(stream, 1, n))
    /\ splits' = IF 0 < n /\ n < count THEN splits \cup {hpc} ELSE splits
    /\ ServerFrame

\* AsyncOSCTCPServer.handle in mode 1.1: handle_1_1 from one read to the
\* next, and the end of handle.
handle_1_1(n) ==
    /\ mode = "handle_1_1" /\ hpc \in {"first", "more"}
    /\ Read(n, Len(stream))
    /\ IF n = 0 /\ hpc = "first" THEN Ended
       ELSE IF n = 0 THEN FramesRead(SlipPackets(buf))
       ELSE IF stream[n] = END THEN FramesRead(SlipPackets(buf \o SubSeq(stream, 1, n)))
       ELSE Reading("more", buf \o SubSeq(stream, 1, n), 0)
    /\ UNCHANGED splits
    /\ ServerFrame

\* osc_server._is_valid_request
_is_valid_request(bytes) == dgram_is_bundle(bytes) \/ dgram_is_message(bytes)

\* A datagram arrives at an OSCUDPServer: verify_request and, if it holds,
\* _UDPHandler.handle.
UDPHandler_handle ==
    /\ mode = "_UDPHandler" /\ hpc = "request"
    /\ stream' = <<>>
    /\ IF _is_valid_request(stream)
       THEN Dispatched(Serve(mode, <<stream>>, 1, clock, _map, _default_handler),
                       "returned", 0)
       ELSE Ended
    /\ UNCHANGED <<sawEof, readAfterEof, splits>>
    /\ ServerFrame

(***************************************************************************)
(* SpecServer: a server whose dispatcher has four handlers is sent up to   *)
(* MaxFrames packets on one connection, framed for its mode, or one        *)
(* datagram.  The peer closes after any number of the bytes.  In mode 1.1  *)
(* a frame may share its first END with the frame before it, and a frame   *)
(* may be invalid.                                                         *)
(***************************************************************************)
MaxFrames == 2

ServerTable ==
    MapAppend(MapAppend(MapAppend(MapAppend(<<>>,
        AddrA, Handler(1, "cb2", <<>>, FALSE)),
        AddrA, Handler(2, "cb4", <<7>>, FALSE)),
        AddrB, Handler(3, "cb1", <<>>, TRUE)),
        AddrB, Handler(4, "cb2", <<>>, TRUE))

\* Messages of an address alone, which OscMessage parses as a message
\* with no parameters.
SrvDgramA == write_string(AddrA)
SrvDgramB == write_string(AddrB)
RawPacket == <<END, ESC>>
BadFrame == <<END, ESC, 1, END>>

\* A packet of the peer: its bytes, whether its frame is valid, and
\* whether its frame has an END of its own at its beginning ("double")
\* or shares the END of the frame before it ("shared").
PeerPacket(bytes, valid, joint) == [data |-> bytes, valid |-> valid, joint |-> joint]

PeerChoices(framing) ==
    IF framing = MODE_1_0
    THEN {PeerPacket(d, TRUE, "double") : d \in {SrvDgramA, SrvDgramB, RawPacket, <<>>}}
    ELSE {PeerPacket(d, TRUE, "double") : d \in {SrvDgramA, SrvDgramB, RawPacket}}
         \cup {PeerPacket(SrvDgramA, TRUE, "shared"), PeerPacket(<<>>, FALSE, "double")}

PeerSequences(framing) ==
    { s \in UNION {[1 .. n -> PeerChoices(framing)] : n \in 1 .. MaxFrames} :
        s[1].joint = "double" }

\* The frame of one packet as the peer sends it.
FrameOf(framing, p) ==
    IF framing = MODE_1_0 THEN pack_I(Len(p.data)) \o p.data
    ELSE IF ~p.valid THEN BadFrame
    ELSE IF p.joint = "shared" THEN Tail(slip_encode(p.data))
    ELSE slip_encode(p.data)

RECURSIVE StreamOf(_, _)
StreamOf(framing, packets) ==
    IF packets = <<>> THEN <<>>
    ELSE FrameOf(framing, Head(packets)) \o StreamOf(framing, Tail(packets))

\* How many frames lie wholly in the first k bytes.
WholeIn(framing, packets, k) ==
    Cardinality({j \in 1 .. Len(packets) :
                    Len(StreamOf(framing, SubSeq(packets, 1, j))) <= k})

ServerModes == BlockingModes \cup AsyncModes

\* A server whose dispatcher holds table, with a connection or a datagram.
ServerInit(table) ==
    /\ NoBuilder /\ NoMatch /\ NoSlip /\ NoTasks
    /\ _map = table
    /\ _default_handler = NoHandler
    /\ nextId = 5 /\ opCount = 4 /\ apiExc = "none" /\ mapLog = <<>> /\ lastApi = "map"
    /\ clock = 2
    /\ DispatchIdle
    /\ mode \in ServerModes \cup {"_UDPHandler"}
    /\ IF mode = "_UDPHandler"
       THEN /\ peerPackets \in {<<PeerPacket(d, TRUE, "double")>> :
                                   d \in {SrvDgramA, SrvDgramB, RawPacket}}
            /\ stream = peerPackets[1].data
            /\ peerWhole = 1
            /\ hpc = "request" /\ count = 0
       ELSE /\ peerPackets \in PeerSequences(FramingOf(mode))
            /\ \E k \in 0 .. Len(StreamOf(FramingOf(mode), peerPackets)) :
                  /\ stream = SubSeq(StreamOf(FramingOf(mode), peerPackets), 1, k)
                  /\ peerWhole = WholeIn(FramingOf(mode), peerPackets, k)
                  \* a stream that ends before the last frame is the
                  \* stream of a shorter sequence of packets
                  /\ peerWhole >= Len(peerPackets) - 1
            /\ hpc = IF FramingOf(mode) = MODE_1_0 THEN "length" ELSE "first"
            /\ count = IF FramingOf(mode) = MODE_1_0 THEN 4 ELSE 0
    /\ buf = <<>> /\ wire = <<>> /\ hexc = "none"
    /\ writer = IF mode \in AsyncModes THEN "open" ELSE "none"
    /\ sawEof = FALSE /\ readAfterEof = FALSE /\ splits = {}

InitServer == ServerInit(ServerTable)

NextServer ==
    \/ \E n \in 0 .. Len(stream) : TCPHandler1_0_handle(n)
    \/ \E n \in 0 .. Len(stream) : TCPHandler1_1_handle(n)
    \/ \E n \in 0 .. Len(stream) : handle1_0(n)
    \/ \E n \in 0 .. Len(stream) : handle_1_1(n)
    \/ UDPHandler_handle

SpecServer == InitServer /\ [][NextServer]_vars

(***************************************************************************)
(* Properties of the servers.                                              *)
(***************************************************************************)
EventsOf(kind) == SelectSeq(wire, LAMBDA e : e.ev = kind)

\* The data _call_handlers_for_packet was called with, in order.
DispatchedData == [i \in 1 .. Len(EventsOf("dispatch")) |-> EventsOf("dispatch")[i].data]

NonEmptyData(seq) == SelectSeq(seq, LAMBDA d : d # <<>>)

\* The packets the peer framed, and those whose frames arrived whole.
PeerData == [i \in 1 .. Len(peerPackets) |-> peerPackets[i].data]
WholeData == SubSeq(PeerData, 1, peerWhole)

\* Every frame arrived whole.
Complete == peerWhole = Len(peerPackets)

AllValid == \A i \in 1 .. Len(peerPackets) : peerPackets[i].valid
AllDouble == \A i \in 1 .. Len(peerPackets) : peerPackets[i].joint = "double"

\* C11: a callback mapped with needs_reply_address=True is called with
\* the address of the peer as its first argument, by the UDP server and
\* by the TCP servers.
C11_PeerAddressFirst ==
    \A i \in 1 .. Len(wire) :
        (wire[i].ev = "call" /\ wire[i].handler.needs_reply_address) =>
            (wire[i].args # <<>> /\ wire[i].args[1] = PeerArg(ClientAddress))

\* The index of the first dispatch after event number d, or the index
\* after the last event.
NextDispatch(d) ==
    IF \E j \in d + 1 .. Len(wire) : wire[j].ev = "dispatch"
    THEN CHOOSE j \in d + 1 .. Len(wire) :
            wire[j].ev = "dispatch" /\ \A k \in d + 1 .. j - 1 : wire[k].ev # "dispatch"
    ELSE Len(wire) + 1

\* The calls of the packet dispatched at event d that returned a value
\* other than None, and the writes made for that packet, as indices.
RepliedCalls(d) ==
    {i \in d + 1 .. NextDispatch(d) - 1 : wire[i].ev = "call" /\ wire[i].ret # None}
WritesFor(d) == {i \in d + 1 .. NextDispatch(d) - 1 : wire[i].ev = "write"}

\* How many members of the set of indices S are at most i.
RankIn(S, i) == Cardinality({j \in S : j <= i})

\* The payload of a frame the server wrote: [err, val].
Unframed(framing, bytes) ==
    IF framing = MODE_1_0
    THEN IF Len(bytes) >= 4 /\ SubSeq(bytes, 1, 4) = write_int(Len(bytes) - 4)
         THEN Return(SubSeq(bytes, 5, Len(bytes)), 0)
         ELSE Raise("frame")
    ELSE IF Len(bytes) >= 2 /\ bytes[1] = END /\ bytes[Len(bytes)] = END
              /\ \A k \in 2 .. Len(bytes) - 1 : bytes[k] # END
         THEN slip_decode(bytes)
         ELSE Raise("frame")

\* The message a return value asks for: the address alone, or the
\* address and the arguments.
ReplyMessage(ret) ==
    IF ret.kind = "list" THEN Message(ret.val[1].val, Tail(ret.val))
    ELSE Message(ret.val, <<>>)

\* The bytes written are one frame that holds the message of ret.
IsReplyTo(framing, bytes, ret) ==
    /\ Unframed(framing, bytes).err = "none"
    /\ _parse_datagram(Unframed(framing, bytes).val).err = "none"
    /\ _parse_datagram(Unframed(framing, bytes).val).content = ReplyMessage(ret)

\* The packets seen by _call_handlers_for_packet.  In mode 1.1 the END of
\* a frame that begins or ends a read gives an empty piece, which is no
\* packet.
PacketsSeen ==
    IF FramingOf(mode) = MODE_1_0 THEN DispatchedData ELSE NonEmptyData(DispatchedData)

\* C12: on a connection of a TCP server the packets are dispatched in the
\* order of their arrival, and for every packet each return value other
\* than None is written as one frame of the mode that holds one message,
\* in the order of the calls, after the calls for the packet and before
\* the next packet is dispatched.  The frames of the stream are valid and
\* each has its own END bytes where the order of the packets is stated;
\* the blocking handlers dispatch all of them.
C12_RepliesInOrder ==
    mode \in ServerModes =>
        /\ wire # <<>> => wire[1].ev = "dispatch"
        /\ \A d \in 1 .. Len(wire) :
              wire[d].ev = "dispatch" =>
                 /\ Cardinality(WritesFor(d)) = Cardinality(RepliedCalls(d))
                 /\ \A c \in RepliedCalls(d), w \in WritesFor(d) :
                       /\ c < w
                       /\ RankIn(RepliedCalls(d), c) = RankIn(WritesFor(d), w) =>
                             IsReplyTo(FramingOf(mode), wire[w].data, wire[c].ret)
        /\ (Complete /\ AllValid /\ AllDouble) =>
              /\ IsPrefix(PacketsSeen, PeerData)
              /\ mode \in BlockingModes =>
                    /\ hpc # "raised"
                    /\ hpc = "returned" => PacketsSeen = PeerData

\* Two packets were served on a connection in mode 1.1:
\* a string and a list were returned for the first, None and a string
\* for the second, and three frames were written.
C12_Witness ==
    /\ mode = "_TCPHandler1_1" /\ hpc = "returned"
    /\ DispatchedData = <<SrvDgramA, SrvDgramB>>
    /\ Len(EventsOf("write")) = 3
    /\ \E i \in 1 .. Len(wire) : wire[i].ev = "call" /\ wire[i].ret = None
    /\ \E i \in 1 .. Len(wire) : wire[i].ev = "call" /\ wire[i].ret.kind = "list"

\* C13: the blocking handler of mode 1.0 dispatches the packets whose
\* frames arrived, each once and in order, however the reads split the
\* stream.
C13_Reassembled ==
    mode = "_TCPHandler1_0" =>
        /\ hpc # "raised"
        /\ IsPrefix(DispatchedData, WholeData)
        /\ hpc = "returned" => DispatchedData = WholeData

\* Two different packets were dispatched by the blocking handler of mode
\* 1.0 after reads that returned a part of a length prefix and a part of
\* a payload.
C13_Witness ==
    /\ mode = "_TCPHandler1_0" /\ hpc = "returned"
    /\ splits = {"length", "payload"}
    /\ Len(DispatchedData) = 2 /\ DispatchedData[1] # DispatchedData[2]
    /\ DispatchedData = PeerData

\* C14: the async handler of mode 1.0 dispatches every packet of a stream
\* whose frames all arrived, in order, however the reads split the stream.
C14_AsyncReassembled ==
    (mode = "handle1_0" /\ Complete) =>
        /\ hpc # "raised"
        /\ hpc = "returned" => DispatchedData = PeerData

\* C15: in mode 1.1 every packet of valid frames is dispatched, in order,
\* whether a frame has its own first END or shares the END of the frame
\* before it.
C15_FramesSplit ==
    (FramingOf(mode) = MODE_1_1 /\ mode \in ServerModes /\ Complete /\ AllValid) =>
        /\ hpc # "raised"
        /\ hpc = "returned" => PacketsSeen = PeerData

\* C16: in mode 1.1 an invalid frame is dropped: the handler does not
\* raise and the packets of the valid frames are dispatched, in order.
C16_BadFrameDropped ==
    (FramingOf(mode) = MODE_1_1 /\ mode \in ServerModes /\ Complete /\ AllDouble) =>
        /\ hpc # "raised"
        /\ hpc = "returned" =>
              PacketsSeen = [i \in 1 .. Len(SelectSeq(peerPackets, LAMBDA p : p.valid)) |->
                                SelectSeq(peerPackets, LAMBDA p : p.valid)[i].data]

\* C17: once a read has returned zero bytes the handler has ended without
\* an exception, it has made no read after that one, and the async server
\* has closed the writer; the frames of the stream are valid and each has
\* its own END bytes.
C17_EndOfStream ==
    (mode \in ServerModes /\ AllValid /\ AllDouble /\ sawEof) =>
        /\ hpc = "returned"
        /\ ~readAfterEof
        /\ mode \in AsyncModes => writer = "closed"

(***************************************************************************)
(* SpecDecode: a packet of any bytes, as it may come from a peer, is       *)
(* decoded and validated.                                                  *)
(***************************************************************************)
SlipWire == UNION {[1 .. n -> SlipBytes] : n \in 0 .. MaxSlipLen + 1}

SlipDecodeReceived ==
    /\ slipState = "received"
    /\ slip_decoded' = slip_decode(slip_packet)
    /\ slipState' = "answered"
    /\ UNCHANGED <<slip_msg, slip_packet, slip_valid>>
    /\ UNCHANGED <<tableVars, dispVars, data, builderVars, matchVars, srvVars, taskVars>>

InitDecode ==
    /\ NoDispatcher /\ NoBuilder /\ NoMatch /\ NoServer /\ NoTasks
    /\ slip_msg = <<>>
    /\ slip_packet \in SlipWire
    /\ slip_decoded = Return(<<>>, 0)
    /\ slip_valid = "unknown"
    /\ slipState = "received"

NextDecode ==
    \/ SlipDecodeReceived
    \/ SlipIsValid

SpecDecode == InitDecode /\ [][NextDecode]_vars

\* The places of the bytes of p that are not END.
NotEndAt(p) == {i \in 1 .. Len(p) : p[i] # END}
FirstOf(S) == CHOOSE i \in S : \A j \in S : i <= j
LastOf(S) == CHOOSE i \in S : \A j \in S : j <= i

\* Between its first and its last byte that is not END, p holds an END,
\* ends with ESC, or holds an ESC before a byte that is neither ESC_END
\* nor ESC_ESC.
Malformed(p) ==
    /\ NotEndAt(p) # {}
    /\ \/ \E i \in FirstOf(NotEndAt(p)) .. LastOf(NotEndAt(p)) : p[i] = END
       \/ p[LastOf(NotEndAt(p))] = ESC
       \/ \E i \in FirstOf(NotEndAt(p)) .. LastOf(NotEndAt(p)) - 1 :
             p[i] = ESC /\ p[i + 1] \notin {ESC_END, ESC_ESC}

\* C29: slip.decode raises ProtocolError for the packets that, without
\* their leading and trailing END bytes, hold an END, end with an ESC or
\* hold an ESC followed by a byte other than ESC_END and ESC_ESC; it
\* decodes every other packet without an error, and is_valid tells the
\* two kinds apart.
C29_DecodeRejects ==
    /\ slipState = "answered" =>
          /\ slip_decoded.err \in {"none", "ProtocolError"}
          /\ slip_decoded.err = "ProtocolError" <=> Malformed(slip_packet)
    /\ (slipState \in {"received", "answered"} /\ slip_valid # "unknown") =>
          (slip_valid = "no" <=> Malformed(slip_packet))

\* decode has refused a packet with END bytes at both ends for the ESC at
\* its end, and is_valid has found it invalid.
C29_Witness ==
    /\ slipState = "answered" /\ slip_valid = "no"
    /\ slip_decoded.err = "ProtocolError"
    /\ slip_packet = <<END, 1, ESC, END>>

\* A query that is an address without wildcard followed by one "?".
EndsWithOne(q) == q[Len(q)] = "?" /\ Literal(SubSeq(q, 1, Len(q) - 1))

\* C30: a "?" at the end of a query stands for exactly one character that
\* is not "/": the handler registered at an address without wildcard is
\* yielded exactly when the address is the query with one such character
\* in the place of the "?", and not when it is the query without the "?"
\* or with two characters in its place.
C30_OneCharacter ==
    (fwd # "unknown" /\ EndsWithOne(queried) /\ Literal(registered)) =>
        (fwd = "yes" <=>
            /\ Len(registered) = Len(queried)
            /\ SubSeq(registered, 1, Len(registered) - 1) = SubSeq(queried, 1, Len(queried) - 1)
            /\ registered[Len(registered)] # "/")

(***************************************************************************)
(* SpecInt: integers about the ends of the ranges of 32 and of 64 bits     *)
(* are added to a builder with their type left to the builder, and build   *)
(* is called.                                                              *)
(***************************************************************************)
\* 2^31 - 1, 2^31, 2^31 + 1, 2^32 - 1, 2^32, 2^63 - 1, 2^63, 2^63 + 1, and
\* 0, 1 and 300.
Magnitudes ==
    { <<>>, <<1>>, <<1, 44>>,
      <<127, 255, 255, 255>>, <<128, 0, 0, 0>>, <<128, 0, 0, 1>>,
      <<255, 255, 255, 255>>, <<1, 0, 0, 0, 0>>,
      <<127, 255, 255, 255, 255, 255, 255, 255>>, <<128, 0, 0, 0, 0, 0, 0, 0>>,
      <<128, 0, 0, 0, 0, 0, 0, 1>> }

PyInts == {Long(FALSE, m) : m \in Magnitudes} \cup {Long(TRUE, m) : m \in Magnitudes \ {<<>>}}

InitInt == InitBuild

NextInt ==
    \/ \E v \in PyInts : AddArg(v, NoType)
    \/ Build

SpecInt == InitInt /\ [][NextInt]_vars

RECURSIVE BytesLess(_, _)
\* Is the number of the bytes a, without leading zeros, less than that of b.
BytesLess(a, b) ==
    IF Len(a) # Len(b) THEN Len(a) < Len(b)
    ELSE IF a = <<>> THEN FALSE
    ELSE IF a[1] # b[1] THEN a[1] < b[1]
    ELSE BytesLess(Tail(a), Tail(b))

\* -2^(8n-1) <= v < 2^(8n-1)
FitsSigned(v, n) ==
    \/ BytesLess(v.mag, <<128>> \o Zeros(n - 1))
    \/ v.neg /\ v.mag = <<128>> \o Zeros(n - 1)

\* C28: an integer added without a type gets the tag "i" when it fits 32
\* bits signed and the tag "h" when it does not, and build gives a message
\* when every integer added fits 64 bits signed.
C28_IntTags ==
    /\ \A k \in 1 .. Len(added) :
          (added[k].kind = "long" /\ Len(builder_args) = Len(added)) =>
              builder_args[k].type = IF FitsSigned(added[k].val, 4) THEN "i" ELSE "h"
    /\ (buildState = "built"
        /\ \A k \in 1 .. Len(added) :
              added[k].kind = "long" /\ FitsSigned(added[k].val, 8)) =>
          msg.err = "none"

C27_UdpReplies ==
    mode = "_UDPHandler" =>
        \A i \in 1 .. Len(wire) :
            (wire[i].ev = "call" /\ wire[i].ret # None) =>
                \E j \in i + 1 .. Len(wire) :
                    wire[j].ev = "write" /\ wire[j].data = ReplyDgram(wire[i].ret)

(***************************************************************************)
(* SpecReply: the servers of SpecServer with a handler that returns a list *)
(* of an address and an argument and one that returns a tuple of them.     *)
(***************************************************************************)
ReplyTable ==
    MapAppend(MapAppend(<<>>,
        AddrA, Handler(1, "cb4", <<>>, FALSE)),
        AddrB, Handler(2, "cb5", <<>>, FALSE))

InitReply == ServerInit(ReplyTable)

NextReply == NextServer

SpecReply == InitReply /\ [][NextReply]_vars

\* The message a tuple of an address and arguments asks for.
TupleMessage(ret) ==
    Message(ret.val[1].val,
            IF ret.val[2].kind = "list" THEN ret.val[2].val ELSE <<ret.val[2]>>)

\* C25: a TCP server writes one frame with the message of the address and
\* the arguments for a handler that returned them as a tuple, as it does
\* for a handler that returned them as a list.
C25_TupleReply ==
    mode \in ServerModes =>
        /\ hexc # "BuildError"
        /\ \A i \in 1 .. Len(wire) :
              (wire[i].ev = "call" /\ wire[i].ret.kind \in {"list", "tuple"}) =>
                  \E j \in i + 1 .. Len(wire) :
                      /\ wire[j].ev = "write"
                      /\ \A k \in i + 1 .. j : wire[k].ev = "write"
                      /\ Unframed(FramingOf(mode), wire[j].data).err = "none"
                      /\ _parse_datagram(Unframed(FramingOf(mode), wire[j].data).val).content
                            = IF wire[i].ret.kind = "list" THEN ReplyMessage(wire[i].ret)
                              ELSE TupleMessage(wire[i].ret)

(***************************************************************************)
(* Threads: ThreadingOSCUDPServer handles each datagram in a thread of its *)
(* own, and every thread runs the loop of call_handlers_for_packet against *)
(* the one dispatcher.  results, packet, the position of the loop and the  *)
(* generator bound to handlers are locals of the call, so each thread has  *)
(* its own in tasks; _map and _default_handler are read by every           *)
(* resumption of a generator.  A step of a thread is one resumption: the   *)
(* scheduler may switch threads between any two of them.                   *)
(***************************************************************************)
MaxThreads == 2

ThreadTable ==
    MapAppend(MapAppend(MapAppend(<<>>,
        AddrA, Handler(1, "cb1", <<>>, FALSE)),
        AddrA, Handler(2, "cb2", <<7>>, FALSE)),
        AddrB, Handler(3, "cb2", <<>>, TRUE))
ThreadDefault == Handler(4, "cb1", <<>>, FALSE)

\* What the datagrams of the clients parse into.
ThreadPackets ==
    { Message(AddrA, <<5>>), Message(AddrB, <<>>), Message(ReplyAddr, <<>>),
      Bundle(IMMEDIATELY, <<Message(AddrA, <<>>), Message(AddrB, <<6>>)>>),
      Bundle(IMMEDIATELY, <<Message(AddrB, <<>>), Message(AddrA, <<>>)>>) }

\* The head of "for timed_msg in packet.messages" at position i: the
\* generator of the message is created, or the loop is over.  The time tags
\* of ThreadPackets are not later than now, so time.sleep is not called.
AtMessage(f, i) ==
    IF i > Len(f.packet)
    THEN [f EXCEPT !.idx = i, !.pc = "returned"]
    ELSE [f EXCEPT !.idx = i, !.pc = "handlers",
                   !.gen = NewGen(f.packet[i].message.address)]

\* The frame of call_handlers_for_packet when the packet is parsed.
ThreadFrame(parsedContent, now) ==
    AtMessage([pc |-> "loop", packet |-> OscPacketMessages(parsedContent, now),
               idx |-> 1, gen |-> NewGen(<<>>), results |-> <<>>, calls |-> <<>>,
               content |-> parsedContent], 1)

\* ThreadingMixIn.process_request: a datagram that parses into
\* parsedContent arrives and a thread is started for it.
process_request(parsedContent) ==
    /\ Len(tasks) < MaxThreads
    /\ tasks' = Append(tasks, ThreadFrame(parsedContent, clock))
    /\ UNCHANGED <<loop, trace, listener, applied>>
    /\ UNCHANGED <<tableVars, dispVars, data, builderVars, matchVars, slipVars, srvVars>>

\* The frame of thread t after it resumed the generator of frame g and
\* invoked the handler it yielded, if any.
Resumed(t, g) ==
    LET f == tasks[t]
        r == GenNext(tasks[g].gen, _map, _default_handler)
        timed_msg == f.packet[f.idx]
    IN  IF r.gen.state = "finished"
        THEN [tasks EXCEPT ![g].gen = r.gen, ![t] = AtMessage(tasks[t], f.idx + 1)]
        ELSE [tasks EXCEPT
               ![g].gen = r.gen,
               ![t].calls = Append(@, [hid |-> r.value.id,
                                       callback |-> r.value.callback,
                                       args |-> invoke(r.value, ClientAddress,
                                                       timed_msg.message),
                                       doc |-> timed_msg.doc]),
               ![t].results = IF ReturnOf(r.value.callback).kind = "None" THEN @
                              ELSE Append(@, ReturnOf(r.value.callback))]

\* A dispatcher that kept the generator in an attribute of its own: every
\* thread resumes the generator of the first.
ThreadInvokeShared(t) ==
    /\ t \in 1 .. Len(tasks) /\ tasks[t].pc = "handlers"
    /\ tasks' = Resumed(t, 1)
    /\ UNCHANGED <<loop, trace, listener, applied>>
    /\ UNCHANGED <<tableVars, dispVars, data, builderVars, matchVars, slipVars, srvVars>>

\* One turn of "for handler in handlers" in thread t: its generator is
\* resumed against the table as it is now and the handler it yields is
\* invoked; when the generator is exhausted the thread goes on to its next
\* message.
ThreadInvokeNext(t) ==
    /\ t \in 1 .. Len(tasks) /\ tasks[t].pc = "handlers"
    /\ tasks' = Resumed(t, t)
    /\ UNCHANGED <<loop, trace, listener, applied>>
    /\ UNCHANGED <<tableVars, dispVars, data, builderVars, matchVars, slipVars, srvVars>>

InitThreads ==
    /\ NoBuilder /\ NoMatch /\ NoSlip /\ NoServer /\ NoTasks
    /\ _map = ThreadTable
    /\ _default_handler = ThreadDefault
    /\ nextId = 5 /\ opCount = 4 /\ apiExc = "none" /\ mapLog = <<>> /\ lastApi = "map"
    /\ clock = 2
    /\ DispatchIdle

NextThreads ==
    \/ \E c \in ThreadPackets : process_request(c)
    \/ \E t \in 1 .. MaxThreads : ThreadInvokeNext(t)

SpecThreads == InitThreads /\ [][NextThreads]_vars

RECURSIVE SequentialFrom(_, _)
\* The handlers a dispatch of packet invokes when no other runs: those of
\* handlers_for_address for each message in turn, from message i on.
SequentialFrom(pkt, i) ==
    IF i > Len(pkt) THEN <<>>
    ELSE LET hs == handlers_for_address(_map, _default_handler,
                                        pkt[i].message.address)
         IN  [k \in 1 .. Len(hs) |-> [hid |-> hs[k].id, doc |-> pkt[i].doc]]
             \o SequentialFrom(pkt, i + 1)

InvokedBy(f) == [k \in 1 .. Len(f.calls) |-> [hid |-> f.calls[k].hid, doc |-> f.calls[k].doc]]

\* C24: dispatches never modify the table or the default handler, and in
\* every interleaving of the threads that dispatch against the unchanged
\* table each packet has the handlers of a sequential dispatch invoked, as
\* often and in the same order: what a thread has invoked so far is the
\* start of the sequential list, and the whole of it when the thread returns.
C24_FrozenTable ==
    /\ _map = ThreadTable /\ _default_handler = ThreadDefault
    /\ \A t \in 1 .. Len(tasks) :
          /\ IsPrefix(InvokedBy(tasks[t]), SequentialFrom(tasks[t].packet, 1))
          /\ tasks[t].pc = "returned" =>
                InvokedBy(tasks[t]) = SequentialFrom(tasks[t].packet, 1)

\* Two threads are in the middle of dispatching bundles of two messages,
\* each having invoked some handlers and not all, and one of them is past
\* its first message.
C24_Witness ==
    /\ Len(tasks) = 2
    /\ \A t \in 1 .. 2 :
          /\ tasks[t].pc = "handlers" /\ Len(tasks[t].packet) = 2
          /\ tasks[t].calls # <<>>
          /\ Len(tasks[t].calls) < Len(SequentialFrom(tasks[t].packet, 1))
    /\ tasks[1].idx = 2 /\ tasks[2].idx = 1
    /\ tasks[1].content # tasks[2].content

(***************************************************************************)
(* The event loop: one thread runs the tasks, one at a time, and a task    *)
(* keeps the loop until it suspends in an await that does not complete at  *)
(* once, or ends.  Two coroutines dispatch packets: "dispatcher" is        *)
(* Dispatcher.async_call_handlers_for_packet and "server" is               *)
(* AsyncOSCTCPServer._call_handlers_for_packet as awaited by the handler   *)
(* of a connection.  Both wait for the time of a message with time.sleep,  *)
(* which blocks the thread and is no await.  Another thread may ask for a  *)
(* task to be cancelled with loop.call_soon_threadsafe(task.cancel); the   *)
(* loop runs task.cancel when it is idle, and CancelledError is thrown into *)
(* the task where it is suspended.                                         *)
(***************************************************************************)
MaxTasks == 2
AsyncPaths == {"dispatcher", "server"}

\* inspect.iscoroutinefunction(handler.callback): acb is an "async def"
\* callback that suspends once (await asyncio.sleep(0)) and returns None.
iscoroutinefunction(callback) == callback = "acb"

AsyncTable ==
    MapAppend(MapAppend(MapAppend(<<>>,
        AddrA, Handler(1, "cb2", <<>>, FALSE)),
        AddrA, Handler(2, "acb", <<7>>, FALSE)),
        AddrB, Handler(3, "cb1", <<>>, FALSE))

\* What the packets of the tasks parse into.
AsyncPackets ==
    { Message(AddrA, <<>>),
      Bundle(LaterTag, <<Message(AddrB, <<>>)>>),
      Bundle(LaterTag, <<Message(AddrA, <<5>>)>>) }

\* A task that is created and not started.
AsyncFrame(path, parsedContent) ==
    [path |-> path, pc |-> "ready", content |-> parsedContent, packet |-> <<>>,
     idx |-> 1, gen |-> NewGen(<<>>), results |-> <<>>, result |-> None,
     requested |-> FALSE, inWait |-> FALSE, must_cancel |-> FALSE]

Suspended == {"ready", "awaiting", "io"}
Done == {"returned", "cancelled"}

AsyncFrameVars ==
    UNCHANGED <<tableVars, data, builderVars, matchVars, slipVars, srvVars, listener, applied>>
NoClock == UNCHANGED <<pc, packet, idx, gen, results, calls, waits, content, pktNow, exc>>

\* Task.__step: the loop resumes task t where it is suspended.  A task
\* whose cancel was run gets CancelledError there, which neither coroutine
\* catches.  A task that starts parses its packet; one that awaited a
\* callback gets its result; a connection whose dispatch is over ends.
TaskStep(t) ==
    /\ t \in DOMAIN tasks
    /\ loop = 0 /\ tasks[t].pc \in Suspended
    /\ LET f == tasks[t]
       IN  IF f.must_cancel
           THEN /\ tasks' = [tasks EXCEPT ![t].pc = "cancelled"]
                /\ UNCHANGED loop
           ELSE CASE f.pc = "ready" ->
                       /\ tasks' = [tasks EXCEPT ![t].pc = "loop",
                                       ![t].packet = OscPacketMessages(f.content, clock)]
                       /\ loop' = t
                  [] f.pc = "awaiting" ->
                       /\ tasks' = [tasks EXCEPT ![t].pc = "handlers",
                                       ![t].results =
                                           IF f.path = "dispatcher" /\ ~Truthy(f.result)
                                           THEN @ ELSE Append(@, f.result)]
                       /\ loop' = t
                  [] f.pc = "io" ->
                       /\ tasks' = [tasks EXCEPT ![t].pc = "returned"]
                       /\ UNCHANGED loop
    /\ UNCHANGED <<trace, clock>> /\ NoClock /\ AsyncFrameVars

\* The head of "for timed_msg in packet.messages" in task t: the loop is
\* over and the coroutine returns (the handler of a connection goes on to
\* its next await), or the generator is created and, when the message is
\* for later, time.sleep is called.
AsyncNextMessage(t) ==
    /\ t \in DOMAIN tasks
    /\ loop = t /\ tasks[t].pc = "loop"
    /\ LET f == tasks[t]
       IN  IF f.idx > Len(f.packet)
           THEN /\ tasks' = [tasks EXCEPT
                               ![t].pc = IF f.path = "server" THEN "io" ELSE "returned"]
                /\ loop' = 0
           ELSE /\ tasks' = [tasks EXCEPT
                               ![t].gen = NewGen(f.packet[f.idx].message.address),
                               ![t].pc = IF f.packet[f.idx].time > clock
                                         THEN "sleeping" ELSE "handlers"]
                /\ UNCHANGED loop
    /\ UNCHANGED <<trace, clock>> /\ NoClock /\ AsyncFrameVars

\* time.sleep(timed_msg.time - now) returns in task t, at the time of the
\* message or late seconds after it.
AsyncWake(t, late) ==
    /\ t \in DOMAIN tasks
    /\ loop = t /\ tasks[t].pc = "sleeping"
    /\ clock' = tasks[t].packet[tasks[t].idx].time + late
    /\ tasks' = [tasks EXCEPT ![t].pc = "handlers"]
    /\ UNCHANGED <<trace, loop>> /\ NoClock /\ AsyncFrameVars

\* One turn of "for handler in handlers" in task t: the handler the
\* generator yields is invoked; a coroutine callback is awaited and
\* suspends the task.
AsyncInvokeNext(t) ==
    /\ t \in DOMAIN tasks
    /\ loop = t /\ tasks[t].pc = "handlers"
    /\ LET f == tasks[t]
           r == GenNext(f.gen, _map, _default_handler)
           timed_msg == f.packet[f.idx]
           result == ReturnOf(r.value.callback)
       IN  IF r.gen.state = "finished"
           THEN /\ tasks' = [tasks EXCEPT ![t].gen = r.gen, ![t].idx = @ + 1,
                                          ![t].pc = "loop"]
                /\ UNCHANGED <<trace, loop>>
           ELSE /\ trace' = Append(trace,
                      [kind |-> "call", task |-> t, hid |-> r.value.id,
                       args |-> IF f.path = "dispatcher"
                                THEN AsyncCallArgs(r.value, ClientAddress, timed_msg.message)
                                ELSE ServerCallArgs(r.value, timed_msg.message),
                       doc |-> timed_msg.doc,
                       requested |-> f.requested, inWait |-> f.inWait])
                /\ IF iscoroutinefunction(r.value.callback)
                   THEN /\ tasks' = [tasks EXCEPT ![t].gen = r.gen, ![t].result = result,
                                                  ![t].pc = "awaiting"]
                        /\ loop' = 0
                   ELSE /\ tasks' = [tasks EXCEPT
                                       ![t].gen = r.gen,
                                       ![t].results =
                                           IF f.path = "dispatcher" /\ ~Truthy(result)
                                           THEN @ ELSE Append(@, result)]
                        /\ UNCHANGED loop
    /\ UNCHANGED clock /\ NoClock /\ AsyncFrameVars

\* Another thread calls loop.call_soon_threadsafe(task.cancel) for task t:
\* the call is queued, whatever the loop is doing.
RequestCancel(t) ==
    /\ ~tasks[t].requested /\ tasks[t].pc \notin Done
    /\ tasks' = [tasks EXCEPT ![t].requested = TRUE,
                              ![t].inWait = (tasks[t].pc = "sleeping")]
    /\ UNCHANGED <<trace, loop, clock>> /\ NoClock /\ AsyncFrameVars

\* The loop, idle, runs the queued task.cancel of task t.
RunCancel(t) ==
    /\ loop = 0 /\ tasks[t].requested /\ ~tasks[t].must_cancel
    /\ tasks[t].pc \notin Done
    /\ tasks' = [tasks EXCEPT ![t].must_cancel = TRUE]
    /\ UNCHANGED <<trace, loop, clock>> /\ NoClock /\ AsyncFrameVars

InitAsync ==
    /\ NoBuilder /\ NoMatch /\ NoSlip /\ NoServer
    /\ _map = AsyncTable
    /\ _default_handler = NoHandler
    /\ nextId = 4 /\ opCount = 3 /\ apiExc = "none" /\ mapLog = <<>> /\ lastApi = "map"
    /\ clock = 2
    /\ DispatchIdle
    /\ tasks \in [1 .. MaxTasks -> {AsyncFrame(p, c) : p \in AsyncPaths, c \in AsyncPackets}]
    /\ loop = 0 /\ trace = <<>> /\ listener = NoListener /\ applied = <<>>

NextAsync ==
    \/ \E t \in 1 .. MaxTasks : TaskStep(t)
    \/ \E t \in 1 .. MaxTasks : AsyncNextMessage(t)
    \/ \E t \in 1 .. MaxTasks, late \in 0 .. MaxLate : AsyncWake(t, late)
    \/ \E t \in 1 .. MaxTasks : AsyncInvokeNext(t)
    \/ \E t \in 1 .. MaxTasks : RequestCancel(t)
    \/ \E t \in 1 .. MaxTasks : RunCancel(t)

SpecAsync == InitAsync /\ [][NextAsync]_vars

\* C21: the wait for the time of a message is a suspension point: while a
\* task waits, the loop can run every other task that is ready to run.
C21_WaitSuspends ==
    \A t \in 1 .. MaxTasks, u \in 1 .. MaxTasks :
        (t # u /\ tasks[t].pc = "sleeping" /\ tasks[u].pc \in Suspended)
            => ENABLED TaskStep(u)

\* C22: once the cancelling of a task was asked for while its dispatch
\* waited for the time of a message, no handler of the packet is invoked.
C22_CancelledWait ==
    \A i \in 1 .. Len(trace) : trace[i].kind = "call" => ~trace[i].inWait

(***************************************************************************)
(* AsyncOSCTCPServer.start and stop.  listener._server is self._server:    *)
(* "None" until start has created the asyncio.Server, then "serving", and  *)
(* "closed" when "async with self._server" is left.  The coroutines run    *)
(* as tasks of the event loop, so they act when the loop is idle; every    *)
(* connection the server accepts is a task that runs handle, here on one   *)
(* packet.                                                                 *)
(***************************************************************************)
LifecycleFrame ==
    /\ UNCHANGED <<tableVars, dispVars, data, builderVars, matchVars, slipVars, srvVars>>
    /\ UNCHANGED <<loop, trace, applied>>

\* start(): asyncio.start_server, then serve_forever inside
\* "async with self._server", which does not return.
start ==
    /\ loop = 0 /\ listener.start = "none"
    /\ listener' = [listener EXCEPT !._server = "serving", !.start = "running"]
    /\ UNCHANGED tasks /\ LifecycleFrame

\* The task that awaits start() is cancelled: serve_forever raises
\* CancelledError and "async with self._server" closes the server.
CancelStart ==
    /\ loop = 0 /\ listener.start = "running"
    /\ listener' = [listener EXCEPT !._server = "closed", !.start = "cancelled"]
    /\ UNCHANGED tasks /\ LifecycleFrame

\* What "await self._server.cancel()" gives: neither None nor
\* asyncio.Server has an attribute cancel, so the lookup raises and nothing
\* is called or awaited.
ServerCancel(_server) == "AttributeError"

\* stop().
stop ==
    /\ loop = 0 /\ listener.stop = "none"
    /\ listener' = [listener EXCEPT !.stop = ServerCancel(listener._server)]
    /\ UNCHANGED tasks /\ LifecycleFrame

\* Leaving "async with server": __aexit__ awaits stop().  __aenter__
\* returns self and starts nothing.
__aexit__ ==
    /\ loop = 0 /\ listener.exit = "none"
    /\ listener' = [listener EXCEPT !.exit = ServerCancel(listener._server)]
    /\ UNCHANGED tasks /\ LifecycleFrame

\* A peer connects while the server listens: the loop accepts and starts
\* a task that runs handle; the packet the peer will send parses into
\* parsedContent.  late records that stop or __aexit__ had been called.
Connect(parsedContent) ==
    /\ loop = 0 /\ listener._server = "serving"
    /\ Len(tasks) < MaxTasks
    /\ tasks' = Append(tasks, AsyncFrame("server", parsedContent))
    /\ listener' = [listener EXCEPT
                      !.late = @ \/ listener.stop # "none" \/ listener.exit # "none"]
    /\ LifecycleFrame

InitLifecycle ==
    /\ NoBuilder /\ NoMatch /\ NoSlip /\ NoServer /\ NoTasks
    /\ _map = AsyncTable
    /\ _default_handler = NoHandler
    /\ nextId = 4 /\ opCount = 3 /\ apiExc = "none" /\ mapLog = <<>> /\ lastApi = "map"
    /\ clock = 2
    /\ DispatchIdle

NextLifecycle ==
    \/ start
    \/ stop
    \/ __aexit__
    \/ CancelStart
    \/ \E c \in AsyncPackets : Connect(c)
    \/ \E t \in 1 .. MaxTasks : TaskStep(t)
    \/ \E t \in 1 .. MaxTasks : AsyncNextMessage(t)
    \/ \E t \in 1 .. MaxTasks, late \in 0 .. MaxLate : AsyncWake(t, late)
    \/ \E t \in 1 .. MaxTasks : AsyncInvokeNext(t)

SpecLifecycle == InitLifecycle /\ [][NextLifecycle]_vars

\* C23: once start has begun serving, a call of stop, or leaving the
\* async-with scope, completes without error with the listening socket
\* closed, and no connection is accepted after it.
C23_StopCloses ==
    /\ (listener.start # "none" /\ listener.stop # "none") =>
          listener.stop = "returned" /\ listener._server = "closed"
    /\ (listener.start # "none" /\ listener.exit # "none") =>
          listener.exit = "returned" /\ listener._server = "closed"
    /\ ~listener.late

\* C32: the construction of an OscBundle ends for every datagram that
\* starts like a bundle, whatever the size fields of its elements are: it
\* gives the parsed bundle or raises the ParseError of osc_bundle.
C32_BundleParseEnds ==
    (pc # "idle" /\ dgram_is_bundle(data)) =>
        /\ OscBundle(data).err # "NoReturn"
        /\ OscBundle(data).err \in {"none", "osc_bundle.ParseError"}

(***************************************************************************)
(* SpecString: get_string is called on a datagram of up to MaxStrLen       *)
(* bytes, each a NUL, an "a" or the byte 255, at an index in or next to    *)
(* the datagram.                                                           *)
(***************************************************************************)
MaxStrLen == 5

StringBytes == {0, 97, 255}
StringDgrams == UNION {[1 .. n -> StringBytes] : n \in 0 .. MaxStrLen}

\* A call fn(data, start_index) that gave r.
Applied(fn, start_index, r) ==
    [fn |-> fn, args |-> <<start_index>>, err |-> r.err, val |-> r.val, index |-> r.index]

\* osc_types.get_string(data, start_index).
GetString(start_index) ==
    /\ applied = <<>>
    /\ applied' = <<Applied("get_string", start_index, get_string(data, start_index))>>
    /\ UNCHANGED <<tasks, loop, trace, listener>>
    /\ UNCHANGED <<tableVars, dispVars, data, builderVars, matchVars, slipVars, srvVars>>

InitString ==
    /\ NoBuilder /\ NoTransport
    /\ _map = <<>> /\ _default_handler = NoHandler
    /\ nextId = 1 /\ opCount = 0 /\ apiExc = "none" /\ mapLog = <<>> /\ lastApi = "none"
    /\ pc = "idle" /\ packet = <<>> /\ idx = 1 /\ gen = NewGen(<<>>)
    /\ results = <<>> /\ calls = <<>> /\ waits = <<>>
    /\ content = Bundle(IMMEDIATELY, <<>>) /\ pktNow = 0 /\ exc = "none"
    /\ clock = 2
    /\ data \in StringDgrams

NextString == \E start_index \in -1 .. MaxStrLen : GetString(start_index)

SpecString == InitString /\ [][NextString]_vars

\* C39: get_string raises ParseError when the byte at start_index is NUL.
C39_EmptyStringRejected ==
    \A i \in 1 .. Len(applied) :
        (/\ applied[i].fn = "get_string"
         /\ applied[i].args[1] >= 0 /\ applied[i].args[1] < Len(data)
         /\ data[applied[i].args[1] + 1] = 0)
            => applied[i].err = "osc_types.ParseError"

(***************************************************************************)
(* SpecTags: OscMessage is given the datagram of the address /a, a type    *)
(* tag string of up to MaxTags characters among i, T and the two array     *)
(* brackets, and an int for every i of it: the first is 1, the second 2,   *)
(* and so on.                                                              *)
(***************************************************************************)
MaxTags == 6

TagChars == {"i", "T", "[", "]"}
TagStrings == UNION {[1 .. n -> TagChars] : n \in 0 .. MaxTags}

\* How many of the first k characters of tags are c.
CountOf(tags, c, k) == Cardinality({j \in 1 .. k : tags[j] = c})

RECURSIVE TagInts(_, _)
\* The ints of the tags from character k on.
TagInts(tags, k) ==
    IF k > Len(tags) THEN <<>>
    ELSE (IF tags[k] = "i" THEN write_int(CountOf(tags, "i", k)) ELSE <<>>)
         \o TagInts(tags, k + 1)

TagDgram(tags) == write_string(AddrA) \o write_string(<<",">> \o tags) \o TagInts(tags, 1)

\* osc_message.OscMessage(dgram) for the datagram of tags.
ParseTags(tags) ==
    /\ applied = <<>>
    /\ data' = TagDgram(tags)
    /\ applied' = << [fn |-> "OscMessage", args |-> tags,
                      err |-> _parse_datagram(TagDgram(tags)).err,
                      val |-> _parse_datagram(TagDgram(tags)).content.params,
                      index |-> 0] >>
    /\ UNCHANGED <<tasks, loop, trace, listener>>
    /\ UNCHANGED <<tableVars, dispVars, builderVars, matchVars, slipVars, srvVars>>

InitTags ==
    /\ NoDispatcher /\ NoBuilder /\ NoTransport

NextTags == \E tags \in TagStrings : ParseTags(tags)

SpecTags == InitTags /\ [][NextTags]_vars

\* The arrays open after the first k characters of tags.
Depth(tags, k) == CountOf(tags, "[", k) - CountOf(tags, "]", k)

\* No "]" closes nothing and every "[" is closed.
Balanced(tags) ==
    /\ \A k \in 1 .. Len(tags) : Depth(tags, k) >= 0
    /\ Depth(tags, Len(tags)) = 0

\* The "]" that closes the "[" at position k of balanced tags.
Closing(tags, k) ==
    CHOOSE m \in k + 1 .. Len(tags) :
        /\ Depth(tags, m) = Depth(tags, k) - 1
        /\ \A j \in k + 1 .. m - 1 : Depth(tags, j) >= Depth(tags, k)

RECURSIVE Nested(_, _, _)
\* The values of the characters lo .. hi of balanced tags, an array for
\* every pair of brackets.
Nested(tags, lo, hi) ==
    IF lo > hi THEN <<>>
    ELSE CASE tags[lo] = "i" ->
                <<IntVal(CountOf(tags, "i", lo))>> \o Nested(tags, lo + 1, hi)
           [] tags[lo] = "T" ->
                <<Value("bool", TRUE)>> \o Nested(tags, lo + 1, hi)
           [] OTHER ->
                <<ListVal(Nested(tags, lo + 1, Closing(tags, lo) - 1))>>
                \o Nested(tags, Closing(tags, lo) + 1, hi)

\* C37: a message whose type tag string has unbalanced brackets is not
\* decoded, ParseError is raised; when the brackets are balanced, the
\* arguments are nested as the brackets are, each value in the innermost
\* array open where its tag stands.
C37_Brackets ==
    \A i \in 1 .. Len(applied) :
        applied[i].fn = "OscMessage" =>
            IF Balanced(applied[i].args)
            THEN /\ applied[i].err = "none"
                 /\ applied[i].val = Nested(applied[i].args, 1, Len(applied[i].args))
            ELSE applied[i].err = "osc_message.ParseError"

\* [1, [True]] was decoded.
C37_Witness ==
    /\ applied # <<>> /\ applied[1].fn = "OscMessage"
    /\ applied[1].args = <<"[", "i", "[", "T", "]", "]">>
    /\ applied[1].err = "none"
    /\ applied[1].val = <<ListVal(<<IntVal(1), ListVal(<<Value("bool", TRUE)>>)>>)>>

(***************************************************************************)
(* SpecStar: a handler is mapped at an address that ends in "*", one at an *)
(* address that begins with the part before the "*", and each is looked    *)
(* up for the address of the other.  The part before the "*" is made of    *)
(* "/", "a" and "+", characters an OSC address may hold; none has "++",    *)
(* which re.compile reads as one possessive quantifier or rejects,         *)
(* depending on the version of Python.                                     *)
(***************************************************************************)
MaxStarLen == 2

StarPrefixes ==
    { s \in { <<"/">> \o t : t \in UNION {[1 .. n -> {"/", "a", "+"}] : n \in 0 .. MaxStarLen} } :
        \A i \in 1 .. Len(s) - 1 : ~(s[i] = "+" /\ s[i + 1] = "+") }

StarTails == UNION {[1 .. n -> {"/", "a"}] : n \in 0 .. 1}

InitStar ==
    /\ \E p \in StarPrefixes : registered = p \o <<"*">>
    /\ \E p \in StarPrefixes, t \in StarTails : queried = p \o t
    /\ fwd = "unknown" /\ back = "unknown"
    /\ _map = MatchTable(registered, queried)
    /\ _default_handler = NoHandler
    /\ nextId = 3 /\ opCount = 2 /\ apiExc = "none" /\ mapLog = <<>> /\ lastApi = "map"
    /\ clock = 2
    /\ DispatchIdle
    /\ NoBuilder /\ NoSlip /\ NoServer /\ NoTasks

NextStar ==
    \/ LookupForward
    \/ LookupBackward

SpecStar == InitStar /\ [][NextStar]_vars

\* The part of an address before its last character.
BeforeLast(s) == SubSeq(s, 1, Len(s) - 1)

\* C31: a handler mapped at an address that ends in "*" is yielded for
\* every address that begins with the part before the "*", whatever
\* follows it, further "/" and segments included.
C31_StarPrefix ==
    (/\ fwd # "unknown"
     /\ registered[Len(registered)] = "*"
     /\ IsPrefix(BeforeLast(registered), queried))
        => fwd = "yes"

\* C33: an unmap call that raises ValueError leaves the dispatcher as it
\* was: for every address, handlers_for_address yields after the call what
\* it yielded before it, the default handler included.
C33_FailedUnmap ==
    [][(lastApi' = "unmap" /\ opCount' = opCount + 1 /\ apiExc' = "ValueError") =>
          \A q \in QueryAddresses :
              handlers_for_address(_map', _default_handler', q)
                  = handlers_for_address(_map, _default_handler, q)]_vars

(***************************************************************************)
(* SpecOneShot: up to MaxOps handlers are mapped, then a message is        *)
(* dispatched.  The callback "once" is a one-shot handler: when called it  *)
(* calls dispatcher.unmap(address, handlerobj) with the address it was     *)
(* mapped at and the Handler map returned, and returns None.               *)
(***************************************************************************)
OneShotCalls ==
    UNION { [1 .. n -> [addr : {AddrA, AddrStar}, callback : {"cb1", "once"}]] :
              n \in 1 .. MaxOps }

RECURSIVE Mapped(_, _)
\* The map calls cs[1 .. k] as the log of map: the k-th made Handler k.
Mapped(cs, k) ==
    IF k = 0 THEN <<>>
    ELSE Append(Mapped(cs, k - 1),
                [addr |-> cs[k].addr, handler |-> Handler(k, cs[k].callback, <<>>, FALSE)])

RECURSIVE TableOf(_, _)
\* The table after the first k map calls of log.
TableOf(log, k) ==
    IF k = 0 THEN <<>>
    ELSE MapAppend(TableOf(log, k - 1), log[k].addr, log[k].handler)

\* The address the handler of identity id was mapped at.
MappedAddr(log, id) == log[CHOOSE i \in 1 .. Len(log) : log[i].handler.id = id].addr

\* One turn of "for handler in handlers" with callbacks that may unmap
\* themselves: the generator is resumed against the table as it is now,
\* the handler it yields is invoked, and a one-shot callback removes its
\* handler from the table; the ValueError of an unmap that finds no such
\* handler leaves the callback and call_handlers_for_packet.
InvokeNextOneShot(client_address) ==
    /\ pc = "handlers"
    /\ LET r == GenNext(gen, _map, _default_handler)
           timed_msg == packet[idx]
           u == UnmapRemove(_map, MappedAddr(mapLog, r.value.id), r.value)
       IN  /\ gen' = r.gen
           /\ IF r.gen.state = "finished"
              THEN /\ idx' = idx + 1
                   /\ pc' = "loop"
                   /\ UNCHANGED <<calls, exc, tableVars>>
              ELSE /\ calls' = Append(calls,
                        [hid |-> r.value.id,
                         callback |-> r.value.callback,
                         args |-> invoke(r.value, client_address, timed_msg.message),
                         doc |-> timed_msg.doc,
                         early |-> clock < timed_msg.time,
                         slept |-> Len(waits)])
                   /\ IF r.value.callback = "once"
                      THEN /\ _map' = u.map
                           /\ apiExc' = IF u.raised THEN "ValueError" ELSE "none"
                           /\ lastApi' = "unmap"
                           /\ pc' = IF u.raised THEN "raised" ELSE "handlers"
                           /\ exc' = IF u.raised THEN "ValueError" ELSE exc
                           /\ UNCHANGED <<_default_handler, nextId, opCount, mapLog>>
                      ELSE UNCHANGED <<pc, exc, tableVars>>
                   /\ UNCHANGED idx
    /\ UNCHANGED <<packet, waits, content, pktNow, clock, results>>
    /\ UNCHANGED <<data, builderVars, transportVars>>

InitOneShot ==
    /\ \E cs \in OneShotCalls :
          /\ mapLog = Mapped(cs, Len(cs))
          /\ _map = TableOf(mapLog, Len(mapLog))
          /\ nextId = Len(cs) + 1 /\ opCount = Len(cs)
    /\ _default_handler = NoHandler
    /\ apiExc = "none" /\ lastApi = "map"
    /\ clock = 2
    /\ DispatchIdle
    /\ NoTransport
    /\ NoBuilder

NextOneShot ==
    \/ \E q \in {AddrA, AddrB} : ReceiveParsed(Message(q, <<>>))
    \/ NextMessage(0)
    \/ InvokeNextOneShot(ClientAddress)

SpecOneShot == InitOneShot /\ [][NextOneShot]_vars

\* How often the handler of identity id was invoked.
TimesInvoked(id) == Cardinality({i \in 1 .. Len(calls) : calls[i].hid = id})

\* C34: when the dispatch of a message is over, every handler that was
\* mapped at a matching address when it began was invoked once, one-shot
\* handlers that unmapped themselves and the handlers mapped after them
\* included.
C34_OneShot ==
    pc = "returned" =>
        \A i \in 1 .. Len(mapLog) :
            AddrMatches(mapLog[i].addr, content.address)
                => TimesInvoked(mapLog[i].handler.id) = 1

(***************************************************************************)
(* SpecBridge: the two entry points of the dispatcher are called with the  *)
(* same packet and the same peer on a table of plain callbacks, none of    *)
(* which changes the table.  The packets are messages and bundles for      *)
(* now, for which neither entry point calls time.sleep.                    *)
(***************************************************************************)
BridgeFns == {"call_handlers_for_packet", "async_call_handlers_for_packet"}

BridgeHandlers ==
    [callback : {"cb0", "cb1", "cb2"}, args : {<<>>, <<7>>},
     needs_reply_address : BOOLEAN]

\* One or two handlers mapped at /a, in the order of the map calls.
BridgeTables ==
    { MapAppend(<<>>, AddrA, Handler(1, h.callback, h.args, h.needs_reply_address)) :
          h \in BridgeHandlers }
    \cup
    { MapAppend(MapAppend(<<>>, AddrA, Handler(1, "cb1", <<>>, FALSE)),
                AddrA, Handler(2, h.callback, h.args, h.needs_reply_address)) :
          h \in BridgeHandlers }

BridgePackets ==
    { Message(AddrA, <<>>), Message(AddrA, <<5>>), Message(AddrB, <<5>>),
      Bundle(IMMEDIATELY, <<Message(AddrA, <<5>>), Message(AddrA, <<>>)>>) }

\* "for handler in handlers" of entry point fn for one message: the
\* synchronous one calls handler.invoke, the asynchronous one calls
\* handler.callback itself.
BridgeInvocations(fn, handlers, client_address, message) ==
    [i \in 1 .. Len(handlers) |->
        [hid |-> handlers[i].id,
         args |-> IF fn = "call_handlers_for_packet"
                  THEN invoke(handlers[i], client_address, message)
                  ELSE AsyncCallArgs(handlers[i], client_address, message),
         ret |-> ReturnOf(handlers[i].callback)]]

RECURSIVE BridgeMessages(_, _, _, _, _, _)
\* "for timed_msg in packet.messages" of entry point fn from message i on.
BridgeMessages(fn, msgs, i, m, default_handler, client_address) ==
    IF i > Len(msgs) THEN <<>>
    ELSE BridgeInvocations(fn,
             handlers_for_address(m, default_handler, msgs[i].message.address),
             client_address, msgs[i].message)
         \o BridgeMessages(fn, msgs, i + 1, m, default_handler, client_address)

\* results of entry point fn: "if result is not None" in the synchronous
\* one, "if result" in the asynchronous one.
BridgeResults(fn, invocations) ==
    LET kept == SelectSeq(invocations,
                    LAMBDA c : IF fn = "call_handlers_for_packet"
                               THEN c.ret # None ELSE Truthy(c.ret))
    IN  [i \in 1 .. Len(kept) |-> kept[i].ret]

\* Entry point fn is called with a packet that parses into parsedContent
\* and returns.
CallHandlersForPacket(fn, parsedContent) ==
    /\ Len(applied) < 2
    /\ \A i \in 1 .. Len(applied) : applied[i].fn # fn
    /\ LET invocations == BridgeMessages(fn, OscPacketMessages(parsedContent, clock), 1,
                                         _map, _default_handler, ClientAddress)
       IN  applied' = Append(applied,
               [fn |-> fn, args |-> parsedContent, err |-> "none",
                val |-> [calls |-> invocations,
                         results |-> BridgeResults(fn, invocations)],
                index |-> 0])
    /\ UNCHANGED <<tableVars, dispVars, data, builderVars, matchVars, slipVars, srvVars,
                   tasks, loop, trace, listener>>

InitBridge ==
    /\ NoBuilder /\ NoTransport
    /\ _map \in BridgeTables
    /\ _default_handler = NoHandler
    /\ nextId = 3 /\ opCount = 2 /\ apiExc = "none" /\ mapLog = <<>> /\ lastApi = "map"
    /\ clock = 2
    /\ DispatchIdle

NextBridge ==
    \E fn \in BridgeFns, parsedContent \in BridgePackets :
        CallHandlersForPacket(fn, parsedContent)

SpecBridge == InitBridge /\ [][NextBridge]_vars

\* C35: called with the same packet and the same peer on the same table of
\* plain handlers, the two entry points invoke the same callbacks with the
\* same argument lists in the same order and return the same replies.
C35_SameDispatch ==
    \A i, j \in 1 .. Len(applied) :
        (/\ applied[i].fn = "call_handlers_for_packet"
         /\ applied[j].fn = "async_call_handlers_for_packet"
         /\ applied[i].args = applied[j].args)
            => applied[i].val = applied[j].val

RECURSIVE CallsForAll(_, _)
\* How many handlers the packets ps[1 .. k] invoke with the table as it is.
CallsForAll(ps, k) ==
    IF k = 0 THEN 0
    ELSE CallsForAll(ps, k - 1)
         + Len(_call_handlers_for_packet(ps[k], clock, _map, _default_handler).calls)

\* C36: when the stream of a connection ends inside a frame, the bytes of
\* that frame are not passed to the dispatcher and no handler is invoked
\* for them: the handler dispatches no more packets that are not empty,
\* and invokes no more handlers, than the frames that arrived whole hold.
C36_CutFrameDiscarded ==
    (mode \in ServerModes /\ AllValid /\ ~Complete) =>
        /\ Len(NonEmptyData(DispatchedData)) <= Len(NonEmptyData(WholeData))
        /\ Len(EventsOf("call")) <= CallsForAll(WholeData, Len(WholeData))

(***************************************************************************)
(* SpecClients: the clients that hold a dispatcher.  "dispatcher =         *)
(* Dispatcher()" stands in the body of DispatchClient and of               *)
(* AsyncDispatchTCPClient, so it is evaluated once, when the class is      *)
(* made, and no __init__ assigns self.dispatcher: client.dispatcher is     *)
(* the attribute of the class, whose table is _map.  The clients of a      *)
(* behaviour are instances of one of the two classes.  A client maps       *)
(* handlers through client.dispatcher, unmaps handlers it mapped, and      *)
(* runs handle_messages, which receives one packet before the timeout.     *)
(***************************************************************************)
MaxClients == 2
MaxHandled == 2
ClientClasses == {"DispatchClient", "AsyncDispatchTCPClient"}

\* A client after __init__; mapped lists the handlers that the map calls
\* made through its dispatcher attribute returned.
Client(cls) == [cls |-> cls, mapped |-> <<>>]

\* The entry point of the dispatcher that handle_messages of cls calls.
EntryPoint(cls) ==
    IF cls = "DispatchClient" THEN "call_handlers_for_packet"
    ELSE "async_call_handlers_for_packet"

ClientFrame ==
    UNCHANGED <<dispVars, data, builderVars, matchVars, slipVars, srvVars,
                loop, listener, applied>>

\* client.dispatcher.map(address, callback) through client c.
ClientMap(c, address, callback) ==
    /\ c \in DOMAIN tasks /\ opCount < MaxOps
    /\ LET handlerobj == Handler(nextId, callback, <<>>, FALSE)
       IN  /\ _map' = MapAppend(_map, address, handlerobj)
           /\ mapLog' = Append(mapLog, [addr |-> address, handler |-> handlerobj])
           /\ tasks' = [tasks EXCEPT ![c].mapped = Append(@, nextId)]
    /\ nextId' = nextId + 1 /\ opCount' = opCount + 1
    /\ lastApi' = "map" /\ apiExc' = "none"
    /\ UNCHANGED <<_default_handler, trace>>
    /\ ClientFrame

\* client.dispatcher.unmap(address, handlerobj) through client c, for the
\* i-th handler that was mapped, which c mapped itself.
ClientUnmap(c, i) ==
    /\ c \in DOMAIN tasks /\ opCount < MaxOps
    /\ i \in 1 .. Len(mapLog)
    /\ \E j \in 1 .. Len(tasks[c].mapped) : tasks[c].mapped[j] = mapLog[i].handler.id
    /\ LET u == UnmapRemove(_map, mapLog[i].addr, mapLog[i].handler)
       IN  /\ _map' = u.map
           /\ apiExc' = IF u.raised THEN "ValueError" ELSE "none"
    /\ opCount' = opCount + 1 /\ lastApi' = "unmap"
    /\ UNCHANGED <<_default_handler, nextId, mapLog, tasks, trace>>
    /\ ClientFrame

\* client.handle_messages() of client c: receive returns one packet, which
\* parses into parsedContent, and then nothing.
HandleMessages(c, parsedContent) ==
    /\ c \in DOMAIN tasks /\ Len(trace) < MaxHandled
    /\ trace' = Append(trace,
          [kind |-> "handle_messages", client |-> c, content |-> parsedContent,
           calls |-> BridgeMessages(EntryPoint(tasks[c].cls),
                                    OscPacketMessages(parsedContent, clock), 1,
                                    _map, _default_handler, ClientAddress)])
    /\ UNCHANGED <<tableVars, tasks>>
    /\ ClientFrame

InitClients ==
    /\ NoBuilder /\ NoMatch /\ NoSlip /\ NoServer
    /\ _map = <<>>
    /\ _default_handler = NoHandler
    /\ nextId = 1 /\ opCount = 0 /\ apiExc = "none" /\ mapLog = <<>> /\ lastApi = "none"
    /\ clock = 2
    /\ DispatchIdle
    /\ tasks \in {[c \in 1 .. MaxClients |-> Client(cls)] : cls \in ClientClasses}
    /\ loop = 0 /\ trace = <<>> /\ listener = NoListener /\ applied = <<>>

NextClients ==
    \/ \E c \in 1 .. MaxClients, address \in {AddrA, AddrB} : ClientMap(c, address, "cb1")
    \/ \E c \in 1 .. MaxClients, i \in 1 .. MaxOps : ClientUnmap(c, i)
    \/ \E c \in 1 .. MaxClients, q \in {AddrA, AddrB} : HandleMessages(c, Message(q, <<>>))

SpecClients == InitClients /\ [][NextClients]_vars

\* C38: every client has its own handler table: the handlers that
\* handle_messages of a client invokes are handlers mapped through the
\* dispatcher of that client, whatever was mapped or unmapped through the
\* dispatcher of another client.
C38_OwnTable ==
    \A e \in 1 .. Len(trace) :
        \A k \in 1 .. Len(trace[e].calls) :
            \E j \in 1 .. Len(tasks[trace[e].client].mapped) :
                tasks[trace[e].client].mapped[j] = trace[e].calls[k].hid

====
